---- MODULE Spec2Model ----
(***************************************************************************)
(* Parlami dashboard (src/app.py): the source resolver (remote store,      *)
(* local report files, bundled samples), the alert enrichment engine and   *)
(* the query handlers built on them.                                       *)
(*                                                                         *)
(* JSON documents are modelled as tagged values, so that Python's dynamic  *)
(* typing (a field that is a string, a number, null or absent) is visible: *)
(*   [t |-> "null"], [t |-> "str", v |-> s], [t |-> "num", v |-> n],        *)
(*   [t |-> "list", v |-> <<...>>], [t |-> "obj", v |-> [key |-> value]]    *)
(* A key that is absent from a dict is absent from the DOMAIN of v.        *)
(***************************************************************************)
EXTENDS Integers, Sequences, FiniteSets, TLC

VARIABLES
    sbAvailable,      \* _SUPABASE_AVAILABLE, fixed when the process starts
    fs,               \* REPORTS_DIR: path -> [mtime, kind], for the files present
    sampleFile,       \* data/sample_reports.json as bundled: "ok" or "unreadable"
    sampleCache,      \* the global _sample_reports (JNull until first loaded)
    approvalsFile,    \* APPROVALS_FILE: its JSON content, or that it is missing or corrupt
    sampleApprovals,  \* data/approvals.json as bundled: "ok" or "unreadable"
    parlami_actions,  \* the rows of the remote store's table parlami_actions
    recorded,         \* history: the approvals api_fix answered with success, in order
    leadsFile,        \* LEADS_FILE: its JSON content, or that it is missing or corrupt
    calls,            \* the requests and threads in flight, each with its position and locals
    hashKey,          \* the per-process key of Python's str hash
    alertIn,          \* enrich_alert's arguments: the raw alert,
    agentIn,          \*   the agent id
    reportIn,         \*   and the report the alert came from
    enriched,         \* the last enrich_alert outcome, with the process it ran in
    run,              \* which process (run of the program) is executing
    ret               \* what the last operation returned

vars == <<sbAvailable, fs, sampleFile, sampleCache, approvalsFile, sampleApprovals,
          parlami_actions, recorded, leadsFile, calls, hashKey, alertIn, agentIn, reportIn, enriched, run, ret>>

----------------------------------------------------------------------------
(* Bounds of the model *)

MaxMtime == 2       \* modification times of local files are 1..MaxMtime
MaxRuns == 2        \* processes (restarts) a behaviour goes through

----------------------------------------------------------------------------
(* JSON values and Python's dict / truthiness operations *)

JNull == [t |-> "null"]
JStr(s) == [t |-> "str", v |-> s]
JNum(n) == [t |-> "num", v |-> n]
JList(q) == [t |-> "list", v |-> q]
JObj(f) == [t |-> "obj", v |-> f]
EmptyObj == JObj([k \in {} |-> JNull])

IsObj(j) == j.t = "obj"
IsStr(j) == j.t = "str"
IsNum(j) == j.t = "num"
IsList(j) == j.t = "list"

\* d.get(k, default) on a dict d
Get(d, k, default) == IF k \in DOMAIN d.v THEN d.v[k] ELSE default
Has(d, k) == k \in DOMAIN d.v

\* bool(x): None, "", 0, [] and {} are falsy
Truthy(j) ==
    CASE j.t = "null" -> FALSE
      [] j.t = "str" -> j.v # ""
      [] j.t = "num" -> j.v # 0
      [] j.t = "list" -> j.v # <<>>
      [] j.t = "obj" -> DOMAIN j.v # {}
      [] OTHER -> TRUE

\* x or y
Or(x, y) == IF Truthy(x) THEN x ELSE y

\* dict d with key k set to value x
Put(d, k, x) == JObj([key \in (DOMAIN d.v) \cup {k} |-> IF key = k THEN x ELSE d.v[key]])

----------------------------------------------------------------------------
(* Strings: TLC's strings are sequences of characters *)

Upper == "ABCDEFGHIJKLMNOPQRSTUVWXYZ"
Lowers == "abcdefghijklmnopqrstuvwxyz"

CharAt(s, i) == SubSeq(s, i, i)

\* str.lower() of one character
LowerChar(c) ==
    IF \E i \in 1..Len(Upper) : CharAt(Upper, i) = c
    THEN CharAt(Lowers, CHOOSE i \in 1..Len(Upper) : CharAt(Upper, i) = c)
    ELSE c

\* s.lower(): every character lowered (the string is split in halves to keep
\* the recursion shallow)
RECURSIVE StrLower(_)
StrLower(s) ==
    IF Len(s) = 0 THEN ""
    ELSE IF Len(s) = 1 THEN LowerChar(s)
    ELSE StrLower(SubSeq(s, 1, Len(s) \div 2)) \o StrLower(SubSeq(s, (Len(s) \div 2) + 1, Len(s)))

\* k in s
Contains(s, k) == \E i \in 1..(Len(s) - Len(k) + 1) : SubSeq(s, i, i + Len(k) - 1) = k

StartsWith(s, p) == Len(s) >= Len(p) /\ SubSeq(s, 1, Len(p)) = p
EndsWith(s, p) == Len(s) >= Len(p) /\ SubSeq(s, Len(s) - Len(p) + 1, Len(s)) = p

DigitChars == "0123456789"

\* str(n) of an integer
RECURSIVE NatStr(_)
NatStr(n) == IF n < 10 THEN CharAt(DigitChars, n + 1) ELSE NatStr(n \div 10) \o CharAt(DigitChars, (n % 10) + 1)
IntStr(n) == IF n < 0 THEN "-" \o NatStr(-n) ELSE NatStr(n)

----------------------------------------------------------------------------
(* Static configuration *)

\* the ids of AGENTS, in the order of the list
AGENTS == <<"marco", "annunci", "bussola", "spia", "stella", "zona",
            "architetto", "penna", "piazza", "faccia", "lettera", "benvenuta">>

AgentIds == {AGENTS[i] : i \in 1..Len(AGENTS)}

----------------------------------------------------------------------------
(* Raw alerts and report documents that the files, the samples and the     *)
(* remote rows of the model hold                                           *)

AlertZeroConv ==
    JObj([finding |-> JStr("Zero conversions despite $420 spend"), school |-> JStr("beibei"),
          level |-> JStr("red"), impact_dollars |-> JNum(420),
          assigned_to |-> JStr("annunci"), action_required |-> JStr("Pause campaign")])

AlertCpa ==
    JObj([finding |-> JStr("CPA too high"), school |-> JStr("amici"),
          level |-> JStr("Yellow"), impact_dollars |-> JNum(105),
          assigned_to |-> JStr("annunci"), action_required |-> JStr("Audit assets")])

AlertUnusual ==
    JObj([finding |-> JStr("Unusual pattern observed"), school |-> JStr("beibei"),
          level |-> JStr("green"), action_required |-> JStr("Review manually")])

AlertDrop ==
    JObj([finding |-> JStr("Organic clicks dropped 20%"), school |-> JStr("amici"),
          level |-> JStr("red"), impact_dollars |-> JNum(105), assigned_to |-> JStr("spia")])

Campaigns ==
    JObj([beibei |-> JList(<<JObj([name |-> JStr("Brand"), conversions |-> JNum(3), spend |-> JNum(80)]),
                             JObj([name |-> JStr("Tours"), conversions |-> JNum(0), spend |-> JNum(420)])>>)])

Spend ==
    JObj([beibei |-> JObj([weekly_spend |-> JNum(420), clicks |-> JNum(12), conversions |-> JNum(0),
                           cpa |-> JNum(0), ctr |-> JNum(2)])])

\* what json.load gives for a parseable report file, by its path under REPORTS_DIR
FileDoc(path) ==
    CASE path = "annunci-1.json" ->
           JObj([date |-> JStr("2026-01-02"), severity |-> JStr("red"), summary |-> JStr("ads"),
                 alerts |-> JList(<<AlertCpa, AlertZeroConv>>), spend |-> Spend,
                 campaign_breakdown |-> Campaigns])
      [] path = "marco-1.json" ->
           JObj([date |-> JStr("2026-01-03"), severity |-> JStr("yellow"),
                 alerts |-> JList(<<AlertUnusual>>)])
      [] path = "marco/1.json" ->
           JObj([severity |-> JStr("green")])
      [] OTHER -> EmptyObj

\* the paths, relative to REPORTS_DIR, that the model's file system may hold
FileNames == {"annunci-1.json", "marco-1.json", "marco/1.json"}

\* the order in which os.listdir (and so glob) lists them; no two names of
\* FileNames match the same pattern, so this order never decides a result
ListDir == <<"marco/1.json", "annunci-1.json", "marco-1.json">>

FileKinds == {"ok", "bad"}     \* "bad": open() or json.load() raises

FileStates == [FileNames -> {[present |-> FALSE]} \cup
                            [present : {TRUE}, mtime : 1..MaxMtime, kind : FileKinds]]

\* data/sample_reports.json as bundled with the program
SampleReports ==
    JObj([annunci |-> JObj([date |-> JStr("2025-01-01"), severity |-> JStr("yellow"),
                            alerts |-> JList(<<AlertZeroConv>>), spend |-> Spend]),
          spia |-> JObj([date |-> JStr("2025-01-01"), severity |-> JStr("red"),
                         alerts |-> JList(<<AlertDrop>>),
                         keywords |-> JObj([beibei |-> JList(<<JObj([clicks |-> JNum(7)]),
                                                               JObj([clicks |-> JNum(5)])>>)])])])

----------------------------------------------------------------------------
(* Source resolver: local files and bundled samples *)

\* _load_sample_reports(): the value returned, which is also the value the
\* global _sample_reports holds afterwards
load_sample_reports(cache) ==
    IF cache = JNull
    THEN (IF sampleFile = "ok" THEN SampleReports ELSE EmptyObj)
    ELSE cache

\* the glob patterns of find_latest_report, each as directory, name prefix and
\* name suffix around the single "*"
Patterns(agent_id) ==
    CASE agent_id = "annunci" -> <<[dir |-> "", pre |-> "annunci-", suf |-> ".json"]>>
      [] agent_id = "bussola" -> <<[dir |-> "", pre |-> "bussola", suf |-> ".json"]>>
      [] agent_id = "spia" -> <<[dir |-> "spia", pre |-> "", suf |-> ".json"]>>
      [] agent_id = "zona" -> <<[dir |-> "", pre |-> "zona-", suf |-> ".json"]>>
      [] OTHER -> <<[dir |-> "", pre |-> agent_id, suf |-> ".json"],
                    [dir |-> agent_id, pre |-> "", suf |-> ".json"]>>

SlashAt(path) == IF Contains(path, "/") THEN CHOOSE i \in 1..Len(path) : CharAt(path, i) = "/" ELSE 0
DirName(path) == IF SlashAt(path) = 0 THEN "" ELSE SubSeq(path, 1, SlashAt(path) - 1)
BaseName(path) == SubSeq(path, SlashAt(path) + 1, Len(path))

\* whether glob's pattern p matches the path: "*" matches within one path
\* component, and a leading "*" does not match a leading "."
GlobMatch(p, path) ==
    /\ DirName(path) = p.dir
    /\ Len(BaseName(path)) >= Len(p.pre) + Len(p.suf)
    /\ StartsWith(BaseName(path), p.pre)
    /\ EndsWith(BaseName(path), p.suf)
    /\ (p.pre = "" => ~StartsWith(BaseName(path), "."))

\* glob.glob(p) over every name of the directory listing, in directory order
RECURSIVE GlobFrom(_, _)
GlobFrom(p, i) ==
    IF i > Len(ListDir) THEN <<>>
    ELSE (IF GlobMatch(p, ListDir[i]) THEN <<ListDir[i]>> ELSE <<>>) \o GlobFrom(p, i + 1)

\* files = []; for p in search: files.extend(glob.glob(p))
RECURSIVE SearchFrom(_, _)
SearchFrom(search, i) ==
    IF i > Len(search) THEN <<>> ELSE GlobFrom(search[i], 1) \o SearchFrom(search, i + 1)

\* per agent, the names its patterns match, in the order glob yields them
Candidates == [agent_id \in AgentIds |-> SearchFrom(Patterns(agent_id), 1)]

\* the list "files" of find_latest_report: the candidates that exist
MatchingFiles(files, agent_id) ==
    LET IsPresent(path) == files[path].present
    IN  SelectSeq(Candidates[agent_id], IsPresent)

\* a resolver that takes the first file glob lists, whatever its age
MaxByMtime_FirstListed(files, paths) == paths[1]

\* max(paths, key=os.path.getmtime): the first path of the list whose
\* modification time no other path exceeds
MaxByMtime(files, paths) ==
    paths[CHOOSE i \in 1..Len(paths) :
            /\ \A j \in 1..Len(paths) : files[paths[j]].mtime <= files[paths[i]].mtime
            /\ \A j \in 1..(i - 1) : files[paths[j]].mtime < files[paths[i]].mtime]

\* a resolver that, when the newest file does not parse, goes on to an older
\* file that does
find_latest_report_TriesOlder(files, cache, agent_id) ==
    LET paths == MatchingFiles(files, agent_id)
        IsOk(path) == files[path].kind = "ok"
        sample == [value |-> Get(load_sample_reports(cache), agent_id, JNull),
                   cache |-> load_sample_reports(cache)]
    IN  IF SelectSeq(paths, IsOk) = <<>> THEN sample
        ELSE [value |-> FileDoc(MaxByMtime(files, SelectSeq(paths, IsOk))), cache |-> cache]

\* find_latest_report(agent_id): [value |-> what it returns (JNull for None),
\* cache |-> the global _sample_reports afterwards]
find_latest_report(files, cache, agent_id) ==
    LET paths == MatchingFiles(files, agent_id)
        sample == [value |-> Get(load_sample_reports(cache), agent_id, JNull),
                   cache |-> load_sample_reports(cache)]
    IN  IF paths = <<>> THEN sample
        ELSE IF files[MaxByMtime(files, paths)].kind = "ok"
             THEN [value |-> FileDoc(MaxByMtime(files, paths)), cache |-> cache]
             ELSE sample

----------------------------------------------------------------------------
(* Remote store adapter *)

\* an exception that propagates out of a function
Raise(e) == [t |-> "raise", v |-> e]
IsRaise(x) == x.t = "raise"

\* what one HTTP request to the remote store can come to: a response with a
\* status and a body (body JNull: the body is not JSON), an exception of the
\* transport, or no answer within the timeout (requests raises Timeout)
Responses(bodies) ==
    [outcome : {"response"}, status : {200}, body : bodies \cup {JNull}]
    \cup [outcome : {"response"}, status : {500}, body : {JNull}]
    \cup [outcome : {"exception", "timeout"}, status : {0}, body : {JNull}]

\* the request is not made (the remote store is not configured)
NoRequest == [outcome |-> "none", status |-> 0, body |-> JNull]

\* an adapter that sends the request again, twice, after a timeout
sb_requests_RetryOnTimeout(available, resp) ==
    IF ~available THEN <<>>
    ELSE IF resp.outcome = "timeout" THEN <<"timeout", "timeout", resp.outcome>>
    ELSE <<resp.outcome>>

\* the HTTP requests one call of _sb_get (or _sb_upsert) sends, each with
\* what it came to: none when the store is not configured, else the one
\* _requests.get (or post) of the try block, whatever its outcome
sb_requests(available, resp) ==
    IF ~available THEN <<>> ELSE <<resp.outcome>>

\* an adapter that answers a failed request with an empty list of rows
sb_get_EmptyOnError(available, resp) ==
    IF ~available THEN JNull
    ELSE IF resp.outcome = "response" /\ resp.status = 200 /\ IsList(resp.body) THEN resp.body
    ELSE JList(<<>>)

\* _sb_get(table, params): the list of rows, or JNull (None)
sb_get(available, resp) ==
    IF ~available THEN JNull
    ELSE IF resp.outcome # "response" THEN JNull            \* except Exception
    ELSE IF resp.status = 200
         THEN (IF resp.body = JNull THEN JNull              \* resp.json() raises
               ELSE IF IsList(resp.body) THEN resp.body ELSE JNull)
         ELSE JNull

\* json.loads(s) for the JSON texts the model's rows hold; any other text raises
JsonTexts == {"[]", "{}", "[\"e1\"]"}
JsonLoads(s) ==
    CASE s = "[]" -> JList(<<>>)
      [] s = "{}" -> EmptyObj
      [] s = "[\"e1\"]" -> JList(<<JStr("e1")>>)
      [] OTHER -> Raise("JSONDecodeError")

\* _parse_json_field(val)
parse_json_field(val) ==
    IF val = JNull THEN JNull
    ELSE IF IsObj(val) \/ IsList(val) THEN val
    ELSE IF IsStr(val) /\ val.v \in JsonTexts THEN JsonLoads(val.v)
    ELSE val                                                 \* except Exception

----------------------------------------------------------------------------
(* /api/reports/latest and /api/agents *)

RowAnnunci ==
    JObj([agent |-> JStr("annunci"), date |-> JStr("2026-02-02"), severity |-> JStr("red"),
          alerts |-> JStr("[\"e1\"]"), client_slug |-> JStr("beibei")])

RowAnnunciOld ==
    JObj([agent |-> JStr("annunci"), date |-> JStr("2026-02-01"), severity |-> JStr("green"),
          alerts |-> JList(<<>>), metrics |-> JStr("not json")])

RowNoAgent == JObj([date |-> JStr("2026-02-03"), severity |-> JStr("yellow")])

\* bodies a GET on parlami_reports may carry
ReportsBodies == {JList(<<>>), JList(<<RowAnnunci, RowAnnunciOld>>), JList(<<RowNoAgent>>),
                  JObj([message |-> JStr("permission denied")])}

\* the entry api_reports builds from a remote row
RemoteEntry(row, agent) ==
    JObj([date |-> Get(row, "date", JStr("unknown")),
          severity |-> Get(row, "severity", JStr("unknown")),
          alerts |-> Or(parse_json_field(Get(row, "alerts", JNull)), JList(<<>>)),
          metrics |-> Or(parse_json_field(Get(row, "metrics", JNull)), EmptyObj),
          summary |-> Get(row, "summary", JStr("")),
          agent |-> agent,
          client_slug |-> Get(row, "client_slug", JNull),
          source |-> JStr("supabase")])

\* for row in sb_reports: keep the first row of each agent
RECURSIVE RemoteReports(_, _, _)
RemoteReports(rows, i, result) ==
    IF i > Len(rows) THEN result
    ELSE LET agent == Get(rows[i], "agent", JStr(""))
         IN  RemoteReports(rows, i + 1,
                 IF Truthy(agent) /\ ~Has(result, agent.v)
                 THEN Put(result, agent.v, RemoteEntry(rows[i], agent))
                 ELSE result)

OptionalKeys == {"spend", "keywords", "metrics", "wins", "recommendations", "campaign_breakdown"}

\* the entry api_reports builds from a local or sample report
LocalEntry(report, id) ==
    JObj([k \in {"date", "severity", "alerts", "agent"} \cup (OptionalKeys \cap DOMAIN report.v) |->
            CASE k = "date" -> Get(report, "date", JStr("unknown"))
              [] k = "severity" -> Get(report, "severity", JStr("unknown"))
              [] k = "alerts" -> Get(report, "alerts", JList(<<>>))
              [] k = "agent" -> JStr(id)
              [] OTHER -> report.v[k]])

\* for ag in AGENTS: report = find_latest_report(ag["id"]); if report: ...
RECURSIVE LocalReports(_, _, _, _)
LocalReports(files, i, cache, result) ==
    IF i > Len(AGENTS) THEN [value |-> result, cache |-> cache]
    ELSE LET r == find_latest_report(files, cache, AGENTS[i])
         IN  LocalReports(files, i + 1, r.cache,
                 IF Truthy(r.value) THEN Put(result, AGENTS[i], LocalEntry(r.value, AGENTS[i]))
                 ELSE result)

\* api_reports(): [value |-> the JSON returned, cache |-> _sample_reports afterwards]
api_reports(available, files, cache, resp) ==
    LET sb_reports == IF available THEN sb_get(available, resp) ELSE JNull
        result == IF Truthy(sb_reports) THEN RemoteReports(sb_reports.v, 1, EmptyObj) ELSE EmptyObj
    IN  IF Truthy(result) THEN [value |-> result, cache |-> cache]
        ELSE LocalReports(files, 1, cache, EmptyObj)

\* api_agents(): for each agent of AGENTS, in order, the "severity" of its entry
RECURSIVE AgentsFrom(_, _, _, _)
AgentsFrom(files, i, cache, result) ==
    IF i > Len(AGENTS) THEN [value |-> JList(result), cache |-> cache]
    ELSE LET r == find_latest_report(files, cache, AGENTS[i])
         IN  AgentsFrom(files, i + 1, r.cache,
                 Append(result, JObj([id |-> JStr(AGENTS[i]),
                                      severity |-> IF Truthy(r.value)
                                                   THEN Get(r.value, "severity", JStr("unknown"))
                                                   ELSE JStr("no data")])))

api_agents(files, cache) == AgentsFrom(files, 1, cache, <<>>)

----------------------------------------------------------------------------
(* Enrichment engine: the parts of enrich_alert before the rules *)

\* the characters that occur in the findings of the model
Alphabet == " $%,-.0123456789:ABCDEFGHIJKLMNOPQRSTUVWXYZabcdefghijklmnopqrstuvwxyz"
CharCode == [c \in {CharAt(Alphabet, i) : i \in 1..Len(Alphabet)} |->
                CHOOSE i \in 1..Len(Alphabet) : CharAt(Alphabet, i) = c]

\* hash(s) of a str: Python keys its string hash with a value drawn when the
\* process starts (PYTHONHASHSEED unset), so the same text hashes differently
\* in different processes; hash("") is 0 under every key. The keyed hash is
\* modelled by a 16-bit signed hash that weighs each character by its
\* position and the key: the sum over the positions lo..hi
RECURSIVE HashFrom(_, _, _, _)
HashFrom(key, s, lo, hi) ==
    IF lo = hi THEN (CharCode[CharAt(s, lo)] * (31 * lo + 7 * key + 1) + key) % 65536
    ELSE (HashFrom(key, s, lo, (lo + hi) \div 2) + HashFrom(key, s, ((lo + hi) \div 2) + 1, hi)) % 65536

PyHash(key, s) ==
    IF Len(s) = 0 THEN 0
    ELSE LET h == HashFrom(key, s, 1, Len(s)) IN IF h >= 32768 THEN h - 65536 ELSE h

Abs(n) == IF n < 0 THEN -n ELSE n

\* str(x) as an f-string formats a field
PyStr(j) ==
    CASE IsStr(j) -> j.v
      [] IsNum(j) -> IntStr(j.v)
      [] j = JNull -> "None"
      [] IsList(j) /\ j.v = <<>> -> "[]"
      [] IsObj(j) /\ DOMAIN j.v = {} -> "{}"
      [] OTHER -> "..."

\* alert_id = f"{school}-{agent_id}-{abs(hash(alert.get('finding', ''))) % 10000}"
AlertId(key, school, agent_id, finding) ==
    PyStr(school) \o "-" \o agent_id \o "-" \o IntStr(Abs(PyHash(key, finding)) % 10000)

\* an impact type that is "confirmed" for a positive impact of any agent
ImpactType_AnyAgent(agent_id, impact) == IF impact > 0 THEN "confirmed" ELSE "estimated"

\* impact_type
ImpactType(agent_id, impact) ==
    IF agent_id = "annunci" /\ impact > 0 THEN "confirmed"
    ELSE IF agent_id = "bussola" /\ impact > 0 THEN "confirmed"
    ELSE "estimated"

\* a monthly impact that is four times the weekly one whatever its sign
ImpactMonthly_Unguarded(impact) == impact * 4

\* "impact_monthly": impact * 4 if impact > 0 else 0
ImpactMonthly(impact) == IF impact > 0 THEN impact * 4 ELSE 0

\* the dict "enriched" as first built
EnrichedBase(alert, agent_id, key) ==
    LET school == Get(alert, "school", JStr("unknown"))
        impact == Get(alert, "impact_dollars", JNum(0))
    IN  JObj([alert_id |-> JStr(AlertId(key, school, agent_id, Get(alert, "finding", JStr("")).v)),
              agent |-> JStr(agent_id),
              level |-> Get(alert, "level", JStr("yellow")),
              school |-> school,
              title |-> Get(alert, "finding", JStr("")),
              impact_monthly |-> JNum(ImpactMonthly(impact.v)),
              impact_type |-> JStr(ImpactType(agent_id, impact.v)),
              why |-> JStr(""),
              evidence |-> JList(<<>>),
              fixes |-> JList(<<>>),
              assigned_to |-> Get(alert, "assigned_to", JStr(agent_id))])

\* enriched["why"] = ...; enriched["evidence"] = [...]; enriched["fixes"] = [...]
SetRule(e, why, evidence, fixes) ==
    Put(Put(Put(e, "why", JStr(why)), "evidence", JList(evidence)), "fixes", JList(fixes))

Fix(description, action_type, estimated_impact, assigned_agent) ==
    JObj([description |-> JStr(description), action_type |-> JStr(action_type),
          estimated_impact |-> JStr(estimated_impact), assigned_agent |-> JStr(assigned_agent)])

----------------------------------------------------------------------------
(* Enrichment engine: the annunci rules *)

\* a dict whose key order (the order of the JSON text) is kept, for the
\* dicts the code iterates over
JObjOrd(keys, f) == [t |-> "obj", v |-> f, order |-> keys]

\* d.values(), in the dict's order
Values(d) ==
    IF "order" \in DOMAIN d THEN [i \in 1..Len(d.order) |-> d.v[d.order[i]]]
    ELSE IF DOMAIN d.v = {} THEN <<>>
    ELSE LET keys == CHOOSE q \in [1..Cardinality(DOMAIN d.v) -> DOMAIN d.v] :
                         \A k \in DOMAIN d.v : \E i \in DOMAIN q : q[i] = k
         IN  [i \in DOMAIN keys |-> d.v[keys[i]]]

\* for c in cb_school: if c.get("conversions") == 0 and c.get("spend", 0) > 50:
\*     campaign_name = c.get("name", ""); break
RECURSIVE CampaignLoop(_, _, _)
CampaignLoop(cs, i, name) ==
    IF i > Len(cs) THEN name
    ELSE IF ~IsObj(cs[i]) THEN Raise("AttributeError")
    ELSE IF Get(cs[i], "conversions", JNull) = JNum(0)
         THEN (IF ~IsNum(Get(cs[i], "spend", JNum(0))) THEN Raise("TypeError")
               ELSE IF Get(cs[i], "spend", JNum(0)).v > 50 THEN Get(cs[i], "name", JStr(""))
               ELSE CampaignLoop(cs, i + 1, name))
         ELSE CampaignLoop(cs, i + 1, name)

\* for cb_school in report.get("campaign_breakdown", {}).values(): ...
RECURSIVE SchoolLoop(_, _, _)
SchoolLoop(schools, i, name) ==
    IF i > Len(schools) THEN name
    ELSE IF IsList(schools[i])
         THEN LET r == CampaignLoop(schools[i].v, 1, name)
              IN  IF IsRaise(r) THEN r ELSE SchoolLoop(schools, i + 1, r)
    ELSE IF ~Truthy(schools[i]) /\ (IsObj(schools[i]) \/ IsStr(schools[i]))
         THEN SchoolLoop(schools, i + 1, name)               \* nothing to iterate over
    ELSE IF IsObj(schools[i]) \/ IsStr(schools[i]) THEN Raise("AttributeError")
    ELSE Raise("TypeError")                                  \* None or a number is not iterable

\* campaign_name after the two loops, or the exception they raise
CampaignName(report) ==
    IF ~IsObj(report) THEN Raise("AttributeError")
    ELSE IF ~IsObj(Get(report, "campaign_breakdown", EmptyObj)) THEN Raise("AttributeError")
    ELSE SchoolLoop(Values(Get(report, "campaign_breakdown", EmptyObj)), 1, JStr(""))

\* the zero-conversions rule with its two fixes in the other order
ZeroConversions_VerifyFirst(e, alert, report) ==
    LET campaign_name == CampaignName(report)
        impact == Get(alert, "impact_dollars", JNum(0))
    IN  IF IsRaise(campaign_name) THEN campaign_name
        ELSE SetRule(e,
            "This campaign has been running for a full week spending money but generating zero tour bookings.",
            <<JStr("$" \o PyStr(impact) \o " spent in the last 7 days with 0 conversions")>>,
            <<Fix("Verify conversion tracking is working with Bussola", "verify_tracking",
                  "Ensure data accuracy", "bussola"),
              Put(Fix("Pause the campaign immediately to stop wasting budget", "pause_campaign",
                      "Save ~$" \o IntStr(impact.v * 4) \o "/month", "annunci"),
                  "campaign", Or(campaign_name, Get(alert, "finding", JStr(""))))>>)

ZeroConversions(e, alert, report) ==
    LET campaign_name == CampaignName(report)
        impact == Get(alert, "impact_dollars", JNum(0))
    IN  IF IsRaise(campaign_name) THEN campaign_name
        ELSE SetRule(e,
            "This campaign has been running for a full week spending money but generating zero tour bookings. Either the targeting is too broad, the landing page isn't converting, or conversion tracking may be broken.",
            <<JStr("$" \o PyStr(impact) \o " spent in the last 7 days with 0 conversions"),
              IF Truthy(campaign_name) THEN JStr("Campaign: " \o PyStr(campaign_name))
              ELSE JStr("Multiple campaigns affected"),
              JStr("Week-over-week conversions dropped 96% across all campaigns"),
              JStr("Other campaigns in the same account are also underperforming")>>,
            <<Put(Fix("Pause the campaign immediately to stop wasting budget", "pause_campaign",
                      "Save ~$" \o IntStr(impact.v * 4) \o "/month", "annunci"),
                  "campaign", Or(campaign_name, Get(alert, "finding", JStr("")))),
              Fix("Verify conversion tracking is working with Bussola", "verify_tracking",
                  "Ensure data accuracy", "bussola")>>)

HighCpa(e, alert) ==
    SetRule(e,
        "The cost per acquisition is significantly above target, meaning you're paying too much for each tour booking. This usually means the ad assets or targeting need optimization.",
        <<Get(alert, "finding", JStr("")), JStr("Target CPA is $50, current CPA is more than double")>>,
        <<Fix("Audit asset group performance and pause underperformers", "audit_assets",
              "Reduce CPA by 30-50%", "annunci")>>)

\* (the dashes and the arrow of the source's texts are written in ASCII here)
ConversionsCollapsed(e) ==
    SetRule(e,
        "Conversions dropped dramatically (96%) in one week. This is almost certainly a tracking issue - real tour interest doesn't drop this fast. The conversion pixel or form tracking likely broke.",
        <<JStr("Previous week: 129 conversions -> This week: 5 conversions (96% drop)"),
          JStr("Ad spend only decreased 10%, so ads are still running"),
          JStr("All campaigns affected simultaneously - points to tracking, not ad quality")>>,
        <<Fix("Run conversion tracking audit with Bussola", "verify_tracking",
              "Critical - all optimization depends on accurate data", "bussola"),
          Fix("Check GTM tags and form submission events", "check_gtm",
              "Identify the exact break point", "bussola")>>)

PerformingWell(e, alert) ==
    SetRule(e,
        "This campaign is performing well and delivering results at or below target cost.",
        <<Get(alert, "finding", JStr(""))>>,
        <<Fix("Consider increasing budget to get more conversions", "increase_budget",
              "2-3 more tours/week", "annunci")>>)

\* the if/elif chain run as independent ifs, so that a later rule that also
\* matches overwrites the fields of an earlier one
AnnunciRules_NoElif(e, alert, finding, report) ==
    LET e1 == IF Contains(finding, "zero conversions") \/ Contains(finding, "0 conversions")
              THEN ZeroConversions(e, alert, report) ELSE e
        e2 == IF IsRaise(e1) THEN e1
              ELSE IF Contains(finding, "cpa") /\ (Contains(finding, "high") \/ Contains(finding, "2.") \/ Contains(finding, "3."))
              THEN HighCpa(e1, alert) ELSE e1
        e3 == IF IsRaise(e2) THEN e2
              ELSE IF Contains(finding, "collapsed") \/ (Contains(finding, "dropped") /\ Contains(finding, "conversion"))
              THEN ConversionsCollapsed(e2) ELSE e2
    IN  IF IsRaise(e3) THEN e3
        ELSE IF Contains(finding, "excellent") \/ Contains(finding, "good") \/ Contains(finding, "performing")
        THEN PerformingWell(e3, alert) ELSE e3

\* if agent_id == "annunci": if ... elif ... elif ... elif ...
AnnunciRules(e, alert, finding, report) ==
    IF Contains(finding, "zero conversions") \/ Contains(finding, "0 conversions")
    THEN ZeroConversions(e, alert, report)
    ELSE IF Contains(finding, "cpa") /\ (Contains(finding, "high") \/ Contains(finding, "2.") \/ Contains(finding, "3."))
    THEN HighCpa(e, alert)
    ELSE IF Contains(finding, "collapsed") \/ (Contains(finding, "dropped") /\ Contains(finding, "conversion"))
    THEN ConversionsCollapsed(e)
    ELSE IF Contains(finding, "excellent") \/ Contains(finding, "good") \/ Contains(finding, "performing")
    THEN PerformingWell(e, alert)
    ELSE e

----------------------------------------------------------------------------
(* Enrichment engine: the zona, spia and bussola rules, and the fallback *)

\* report.get('metrics', {}).get(school, {}).get(field, '?'), formatted
PagesMetric(report, school, field) ==
    IF ~IsObj(report) THEN Raise("AttributeError")
    ELSE IF ~IsObj(Get(report, "metrics", EmptyObj)) THEN Raise("AttributeError")
    ELSE IF IsList(school) \/ IsObj(school) THEN Raise("TypeError")      \* unhashable key
    ELSE LET m == IF IsStr(school) THEN Get(Get(report, "metrics", EmptyObj), school.v, EmptyObj)
                  ELSE EmptyObj
         IN  IF ~IsObj(m) THEN Raise("AttributeError") ELSE JStr(PyStr(Get(m, field, JStr("?"))))

Deindexed(e, alert, report) ==
    LET school == Get(alert, "school", JStr("unknown"))
        impact == Get(alert, "impact_dollars", JNum(0))
        live == PagesMetric(report, school, "pages_live")
        indexed == PagesMetric(report, school, "pages_indexed")
    IN  IF IsRaise(live) THEN live
        ELSE IF IsRaise(indexed) THEN indexed
        ELSE SetRule(e,
            "Google can't find these pages because they haven't been submitted to Search Console, or there's a technical block (like a noindex tag). The content is excellent but completely invisible to anyone searching.",
            <<Get(alert, "finding", JStr("")),
              JStr("Pages live: " \o live.v), JStr("Pages indexed: " \o indexed.v)>>,
            <<Fix("Submit all community pages to Google Search Console for indexing", "submit_indexing",
                  "Recover ~$" \o IntStr(impact.v * 4) \o "/month in organic traffic value", "architetto"),
              Fix("Check for noindex tags or robots.txt blocks", "check_noindex",
                  "Remove technical barriers", "architetto"),
              Fix("Add pages to XML sitemap", "update_sitemap", "Improve crawl discovery", "architetto")>>)

ZeroResults(e, alert) ==
    SetRule(e,
        "Your school doesn't appear in search results for this important local keyword. Competitors are taking all the traffic. Once community pages get indexed, rankings should improve.",
        <<Get(alert, "finding", JStr(""))>>,
        <<Fix("Optimize community page for this keyword once indexed", "optimize_page",
              "~$" \o IntStr(Get(alert, "impact_dollars", JNum(0)).v * 4) \o "/month in organic value", "spia")>>)

NotIndexed(e, alert) ==
    SetRule(e,
        "This specific community page exists but isn't showing up in Google. It may need to be manually submitted or there could be a technical issue preventing indexing.",
        <<Get(alert, "finding", JStr(""))>>,
        <<Fix("Submit page to Search Console and verify indexing", "submit_indexing",
              "~$" \o IntStr(Get(alert, "impact_dollars", JNum(0)).v * 4) \o "/month potential", "architetto")>>)

\* elif agent_id == "zona": if ... elif ... elif ...
ZonaRules(e, alert, finding, report) ==
    IF Contains(finding, "deindex") THEN Deindexed(e, alert, report)
    ELSE IF Contains(finding, "zero") /\ Contains(finding, "results") THEN ZeroResults(e, alert)
    ELSE IF Contains(finding, "not appearing") \/ Contains(finding, "not indexed") THEN NotIndexed(e, alert)
    ELSE e

TrafficDropped(e, alert) ==
    SetRule(e,
        "Organic search traffic is declining. This could be due to algorithm changes, new competitors ranking higher, or technical SEO issues affecting your site's visibility.",
        <<Get(alert, "finding", JStr(""))>>,
        <<Fix("Audit affected pages for technical SEO issues", "seo_audit",
              "Recover lost organic traffic", "spia"),
          Fix("Check for SERP changes and new competitors", "competitor_check",
              "Understand competitive landscape", "spia")>>)

RankingPoorly(e, alert) ==
    SetRule(e,
        "Content targeting these keywords isn't strong enough to compete. The pages exist but need better optimization, more internal links, and stronger authority signals.",
        <<Get(alert, "finding", JStr(""))>>,
        <<Fix("Optimize content with better keyword targeting and internal links", "optimize_content",
              "Improve rankings to page 1", "penna")>>)

\* elif agent_id == "spia": if ... elif ...
SpiaRules(e, alert, finding) ==
    IF Contains(finding, "dropped") \/ Contains(finding, "drop") THEN TrafficDropped(e, alert)
    ELSE IF Contains(finding, "ranking poorly") \/ Contains(finding, "low ctr") THEN RankingPoorly(e, alert)
    ELSE e

NoConversions(e, alert) ==
    SetRule(e,
        "People are visiting the site but nobody is converting. Either the contact form is broken, the tracking code isn't firing, or the landing page isn't compelling enough.",
        <<Get(alert, "finding", JStr(""))>>,
        <<Fix("Test all forms manually and check GTM setup", "check_forms",
              "Fix conversion path", "bussola")>>)

HighBounce(e, alert) ==
    SetRule(e,
        "Visitors are leaving immediately without interacting. The landing page may be slow, confusing, or not matching what the ad promised.",
        <<Get(alert, "finding", JStr(""))>>,
        <<Fix("Optimize landing page UX and load time", "optimize_page",
              "Reduce bounce rate, increase conversions", "architetto")>>)

\* elif agent_id == "bussola": if ... elif ...
BussolaRules(e, alert, finding) ==
    IF Contains(finding, "zero conversions") /\ Contains(finding, "sessions") THEN NoConversions(e, alert)
    ELSE IF Contains(finding, "bounce") THEN HighBounce(e, alert)
    ELSE e

\* the chain over agent_id
ApplyRules(e, alert, agent_id, finding, report) ==
    IF agent_id = "annunci" THEN AnnunciRules(e, alert, finding, report)
    ELSE IF agent_id = "zona" THEN ZonaRules(e, alert, finding, report)
    ELSE IF agent_id = "spia" THEN SpiaRules(e, alert, finding)
    ELSE IF agent_id = "bussola" THEN BussolaRules(e, alert, finding)
    ELSE e

\* a fallback that proposes no fix when action_required is empty
Fallback_NoFixWithoutAction(e, alert, agent_id) ==
    Put(Put(Put(e, "why", Get(alert, "action_required", JStr("Investigation needed to determine root cause."))),
            "evidence", JList(<<Get(alert, "finding", JStr(""))>>)),
        "fixes", IF ~Truthy(Get(alert, "action_required", JStr("Review and take action")))
                 THEN JList(<<>>)
                 ELSE JList(<<JObj([description |-> Get(alert, "action_required", JStr("Review and take action")),
                                    action_type |-> JStr("manual_review"),
                                    estimated_impact |-> JStr("TBD"),
                                    assigned_agent |-> Get(alert, "assigned_to", JStr(agent_id))])>>))

\* a fallback that reports the lower-cased finding and leaves the fix unassigned
Fallback_Lowered(e, alert, agent_id) ==
    Put(Put(Put(e, "why", Get(alert, "action_required", JStr("Investigation needed to determine root cause."))),
            "evidence", JList(<<JStr(StrLower(Get(alert, "finding", JStr("")).v))>>)),
        "fixes", JList(<<JObj([description |-> Get(alert, "action_required", JStr("Review and take action")),
                               action_type |-> JStr("manual_review"),
                               estimated_impact |-> JStr("TBD"),
                               assigned_agent |-> JStr(agent_id)])>>))

\* if not enriched["why"]: the default fallback
Fallback(e, alert, agent_id) ==
    Put(Put(Put(e, "why", Get(alert, "action_required", JStr("Investigation needed to determine root cause."))),
            "evidence", JList(<<Get(alert, "finding", JStr(""))>>)),
        "fixes", JList(<<JObj([description |-> Get(alert, "action_required", JStr("Review and take action")),
                               action_type |-> JStr("manual_review"),
                               estimated_impact |-> JStr("TBD"),
                               assigned_agent |-> Get(alert, "assigned_to", JStr(agent_id))])>>))

\* enrich_alert(alert, agent_id, report) in a process whose hash key is key:
\* the enriched dict, or the exception that propagates
enrich_alert(alert, agent_id, report, key) ==
    IF ~IsObj(alert) THEN Raise("AttributeError")
    ELSE IF ~IsStr(Get(alert, "finding", JStr(""))) THEN Raise("AttributeError")    \* .lower()
    ELSE IF ~IsNum(Get(alert, "impact_dollars", JNum(0))) THEN Raise("TypeError")   \* impact > 0
    ELSE LET finding == StrLower(Get(alert, "finding", JStr("")).v)
             ruled == ApplyRules(EnrichedBase(alert, agent_id, key), alert, agent_id, finding, report)
         IN  IF IsRaise(ruled) THEN ruled
             ELSE IF ~Truthy(Get(ruled, "why", JNull)) THEN Fallback(ruled, alert, agent_id)
             ELSE ruled

----------------------------------------------------------------------------
(* /api/alerts and /api/alerts/detailed *)

RowAlertYellow ==
    JObj([alert_id |-> JStr("amici-spia-7"), level |-> JStr("yellow"), school |-> JStr("amici"),
          impact_monthly |-> JNum(40), evidence |-> JStr("[\"e1\"]")])

RowAlertRed ==
    JObj([alert_id |-> JStr("beibei-annunci-3"), level |-> JStr("red"), school |-> JStr("beibei"),
          impact_monthly |-> JNull, evidence |-> JList(<<>>), fixes |-> JStr("not json")])

\* bodies a GET on parlami_alerts may carry
AlertsBodies == {JList(<<>>), JList(<<RowAlertYellow, RowAlertRed>>),
                 JObj([message |-> JStr("permission denied")])}

\* sum(1 for a in rows if a.get("level") == level)
RECURSIVE CountLevel(_, _)
CountLevel(rows, level) ==
    IF rows = <<>> THEN 0
    ELSE (IF Get(Head(rows), "level", JNull) = JStr(level) THEN 1 ELSE 0) + CountLevel(Tail(rows), level)

\* the alerts of the local reports, each with its agent: {**alert, "agent": id}
RECURSIVE LocalAlerts(_, _, _, _)
LocalAlerts(files, i, cache, result) ==
    IF i > Len(AGENTS) THEN [value |-> result, cache |-> cache]
    ELSE LET r == find_latest_report(files, cache, AGENTS[i])
             alerts == IF Truthy(r.value) THEN Get(r.value, "alerts", JList(<<>>)).v ELSE <<>>
         IN  LocalAlerts(files, i + 1, r.cache,
                 result \o [k \in 1..Len(alerts) |-> Put(alerts[k], "agent", JStr(AGENTS[i]))])

\* the fallback's counters: level = alert.get("level", "").lower()
RECURSIVE CountLowered(_, _)
CountLowered(alerts, level) ==
    IF alerts = <<>> THEN 0
    ELSE (IF StrLower(Get(Head(alerts), "level", JStr("")).v) = level THEN 1 ELSE 0)
         + CountLowered(Tail(alerts), level)

\* api_alerts()
api_alerts(available, files, cache, resp) ==
    LET sb_alerts == IF available THEN sb_get(available, resp) ELSE JNull
        local == LocalAlerts(files, 1, cache, <<>>)
    IN  IF sb_alerts # JNull
        THEN [value |-> JObj([red |-> JNum(CountLevel(sb_alerts.v, "red")),
                              yellow |-> JNum(CountLevel(sb_alerts.v, "yellow")),
                              green |-> JNum(CountLevel(sb_alerts.v, "green")),
                              alerts |-> sb_alerts, source |-> JStr("supabase")]),
              cache |-> cache]
        ELSE [value |-> JObj([red |-> JNum(CountLowered(local.value, "red")),
                              yellow |-> JNum(CountLowered(local.value, "yellow")),
                              green |-> JNum(CountLowered(local.value, "green")),
                              alerts |-> JList(local.value)]),
              cache |-> local.cache]

\* an order table whose default puts the levels it does not hold first
LevelOrder_UnknownFirst(level) ==
    IF level = JStr("red") THEN 0 ELSE IF level = JStr("yellow") THEN 1
    ELSE IF level = JStr("green") THEN 2 ELSE -1

\* a comparison under which an element goes before those of an equal key
KeyLeq_Strict(rank_a, impact_a, rank_b, impact_b) ==
    rank_a < rank_b \/ (rank_a = rank_b /\ -impact_a < -impact_b)

\* order.get(level, 3) with order = {"red": 0, "yellow": 1, "green": 2}
LevelOrder(level) ==
    IF level = JStr("red") THEN 0 ELSE IF level = JStr("yellow") THEN 1
    ELSE IF level = JStr("green") THEN 2 ELSE 3

\* whether the sort key of a is at most the sort key of b: keys are tuples
\* (rank, negated impact), compared left to right
KeyLeq(rank_a, impact_a, rank_b, impact_b) ==
    rank_a < rank_b \/ (rank_a = rank_b /\ -impact_a <= -impact_b)

\* list.sort(key=...): a stable sort, here by insertion after the last
\* element whose key is not greater; the elements are [rank, impact, item]
RECURSIVE InsertSorted(_, _)
InsertSorted(sorted, x) ==
    IF sorted = <<>> THEN <<x>>
    ELSE IF KeyLeq(sorted[Len(sorted)].rank, sorted[Len(sorted)].impact, x.rank, x.impact)
         THEN Append(sorted, x)
         ELSE Append(InsertSorted(SubSeq(sorted, 1, Len(sorted) - 1), x), sorted[Len(sorted)])

RECURSIVE SortKeyed(_)
SortKeyed(keyed) ==
    IF keyed = <<>> THEN <<>>
    ELSE InsertSorted(SortKeyed(SubSeq(keyed, 1, Len(keyed) - 1)), keyed[Len(keyed)])

Items(keyed) == [k \in 1..Len(keyed) |-> keyed[k].item]

\* the remote rows with evidence and fixes parsed, then sorted by
\* (order.get(a.get("level", ""), 3), -(a.get("impact_monthly") or 0))
RemoteDetailed(rows) ==
    LET Parsed(a) == Put(Put(a, "evidence", Or(parse_json_field(Get(a, "evidence", JNull)), JList(<<>>))),
                         "fixes", Or(parse_json_field(Get(a, "fixes", JNull)), JList(<<>>)))
    IN  Items(SortKeyed([k \in 1..Len(rows) |->
            [rank |-> LevelOrder(Get(rows[k], "level", JStr(""))),
             impact |-> Or(Get(rows[k], "impact_monthly", JNull), JNum(0)).v,
             item |-> Parsed(rows[k])]]))

\* for alert in report.get("alerts", []): all_alerts.append(enrich_alert(...));
\* the list so far as a JList, or the exception of enrich_alert, which ends
\* the handler
RECURSIVE EnrichEach(_, _, _, _, _, _)
EnrichEach(alerts, k, agent_id, report, key, result) ==
    IF k > Len(alerts) THEN JList(result)
    ELSE LET e == enrich_alert(alerts[k], agent_id, report, key)
         IN  IF IsRaise(e) THEN e ELSE EnrichEach(alerts, k + 1, agent_id, report, key, Append(result, e))

\* one turn of "for ag in AGENTS": acc is [value |-> all_alerts so far (or
\* the exception raised), cache |-> _sample_reports]
DetailedStep(files, key, agent_id, acc) ==
    IF IsRaise(acc.value) THEN acc
    ELSE LET r == find_latest_report(files, acc.cache, agent_id)
             alerts == IF Truthy(r.value) THEN Get(r.value, "alerts", JList(<<>>)).v ELSE <<>>
         IN  [value |-> EnrichEach(alerts, 1, agent_id, r.value, key, acc.value.v), cache |-> r.cache]

\* the loop over AGENTS from the i-th on (each turn's outcome is bound
\* through a singleton set, which evaluates it once)
RECURSIVE LocalDetailed(_, _, _, _)
LocalDetailed(files, i, key, acc) ==
    IF i > Len(AGENTS) THEN acc
    ELSE CHOOSE out \in {LocalDetailed(files, i + 1, key, next) :
                            next \in {DetailedStep(files, key, AGENTS[i], a) : a \in {acc}}} : TRUE

\* all_alerts.sort(key=lambda a: (order.get(a["level"], 3), -a.get("impact_monthly", 0)))
SortedDetailed(local) ==
    IF IsRaise(local.value) THEN local
    ELSE [value |-> JList(Items(SortKeyed([k \in 1..Len(local.value.v) |->
                        [rank |-> LevelOrder(local.value.v[k].v.level),
                         impact |-> Get(local.value.v[k], "impact_monthly", JNum(0)).v,
                         item |-> local.value.v[k]]]))),
          cache |-> local.cache]

\* api_alerts_detailed()
api_alerts_detailed(available, files, cache, key, resp) ==
    LET sb_alerts == IF available THEN sb_get(available, resp) ELSE JNull
    IN  IF sb_alerts # JNull THEN [value |-> JList(RemoteDetailed(sb_alerts.v)), cache |-> cache]
        ELSE CHOOSE out \in {SortedDetailed(local) :
                                local \in {LocalDetailed(files, 1, key, [value |-> JList(<<>>), cache |-> cache])}} : TRUE

----------------------------------------------------------------------------
(* /api/approvals and /api/metrics *)

\* a file that holds no JSON: it is missing, or its text does not parse
FileMissing == [t |-> "missing"]
FileCorrupt == [t |-> "corrupt"]

ApprovalLocal ==
    JObj([alert_id |-> JStr("beibei-annunci-3"), fix_action |-> JStr("pause_campaign"),
          status |-> JStr("approved")])

ApprovalSample ==
    JObj([alert_id |-> JStr("amici-spia-7"), fix_action |-> JStr("seo_audit"),
          status |-> JStr("approved")])

\* data/approvals.json as bundled with the program
SampleApprovals == JList(<<ApprovalSample>>)

\* load_approvals(): APPROVALS_FILE, else the bundled approvals, else []
load_approvals(file, sample) ==
    IF IsList(file) THEN file
    ELSE IF sample = "ok" THEN SampleApprovals
    ELSE JList(<<>>)

RowAction ==
    JObj([alert_id |-> JStr("beibei-annunci-3"), action_type |-> JStr("pause_campaign"),
          status |-> JStr("approved"), result |-> JStr("{}")])

\* bodies a GET on parlami_actions may carry
ActionsBodies == {JList(<<>>), JList(<<RowAction>>), JObj([message |-> JStr("permission denied")])}

\* a handler that takes an empty list of rows for a failed read
api_approvals_EmptyFallsBack(available, file, sample, resp) ==
    LET sb_actions == IF available THEN sb_get(available, resp) ELSE JNull
    IN  IF Truthy(sb_actions)
        THEN JList([k \in 1..Len(sb_actions.v) |->
                      Put(sb_actions.v[k], "result", parse_json_field(Get(sb_actions.v[k], "result", JNull)))])
        ELSE load_approvals(file, sample)

\* api_approvals()
api_approvals(available, file, sample, resp) ==
    LET sb_actions == IF available THEN sb_get(available, resp) ELSE JNull
    IN  IF sb_actions # JNull
        THEN JList([k \in 1..Len(sb_actions.v) |->
                      Put(sb_actions.v[k], "result", parse_json_field(Get(sb_actions.v[k], "result", JNull)))])
        ELSE load_approvals(file, sample)

RowMetricsBeibei ==
    JObj([client_slug |-> JStr("beibei"), date |-> JStr("2026-02-02"), sessions |-> JNum(90),
          conversions |-> JNum(4), top_sources |-> JStr("[\"e1\"]")])

RowMetricsBeibeiOld ==
    JObj([client_slug |-> JStr("beibei"), date |-> JStr("2026-02-01"), sessions |-> JNum(70)])

RowMetricsOther == JObj([client_slug |-> JStr("other"), sessions |-> JNum(5)])

\* bodies a GET on parlami_metrics may carry
MetricsBodies == {JList(<<>>), JList(<<RowMetricsBeibei, RowMetricsBeibeiOld, RowMetricsOther>>),
                  JObj([message |-> JStr("permission denied")])}

Schools == <<"beibei", "amici">>

\* d.update(f) for a dict d and the fields f
Update(d, f) == JObj([k \in (DOMAIN d.v) \cup (DOMAIN f) |-> IF k \in DOMAIN f THEN f[k] ELSE d.v[k]])

\* the first row of the list whose client_slug is slug, JNull when none
FirstRow(rows, slug) ==
    IF \E k \in 1..Len(rows) : Get(rows[k], "client_slug", JNull) = JStr(slug)
    THEN rows[CHOOSE k \in 1..Len(rows) :
                /\ Get(rows[k], "client_slug", JNull) = JStr(slug)
                /\ \A j \in 1..(k - 1) : Get(rows[j], "client_slug", JNull) # JStr(slug)]
    ELSE JNull

\* the fields api_metrics takes from a remote row
RemoteMetrics(row) ==
    [sessions |-> Get(row, "sessions", JNum(0)),
     active_users |-> Get(row, "active_users", JNum(0)),
     new_users |-> Get(row, "new_users", JNum(0)),
     conversions |-> Get(row, "conversions", JNum(0)),
     bounce_rate |-> Get(row, "bounce_rate", JNull),
     avg_session_duration |-> Get(row, "avg_session_duration", JNull),
     page_views |-> Get(row, "page_views", JNum(0)),
     conversion_rate |-> Get(row, "conversion_rate", JNull),
     sessions_wow_change |-> Get(row, "sessions_wow_change", JNull),
     date |-> Get(row, "date", JNull),
     top_sources |-> parse_json_field(Get(row, "top_sources", JNull)),
     device_breakdown |-> parse_json_field(Get(row, "device_breakdown", JNull)),
     source |-> JStr("supabase")]

\* the ad fields merged from the annunci report's spend of one school
AdFields(annunci, school, with_conversions) ==
    LET s == Get(Get(annunci, "spend", EmptyObj), school, EmptyObj)
        ad == [ad_spend_7d |-> Get(s, "weekly_spend", JNum(0)), clicks |-> Get(s, "clicks", JNum(0)),
               cpa |-> Get(s, "cpa", JNum(0)), ctr |-> Get(s, "ctr", JNum(0))]
    IN  IF with_conversions
        THEN [k \in DOMAIN ad \cup {"conversions"} |->
                 IF k = "conversions" THEN Get(s, "conversions", JNum(0)) ELSE ad[k]]
        ELSE ad

\* sum(k.get("clicks", 0) for k in school_kw)
RECURSIVE SumClicks(_)
SumClicks(kws) == IF kws = <<>> THEN 0 ELSE Get(Head(kws), "clicks", JNum(0)).v + SumClicks(Tail(kws))

\* result[school] of api_metrics() for one school
SchoolMetrics(school, sb_data, annunci, spia) ==
    LET none == EmptyObj
        row == IF Truthy(sb_data) THEN FirstRow(sb_data.v, school) ELSE JNull
        remote == IF row # JNull THEN Update(none, RemoteMetrics(row)) ELSE none
        ads == IF Truthy(annunci) THEN Update(remote, AdFields(annunci, school, ~Truthy(sb_data))) ELSE remote
    IN  IF ~Truthy(sb_data) /\ Truthy(spia)
        THEN Put(ads, "organic_clicks",
                 JNum(SumClicks(Get(Get(spia, "keywords", EmptyObj), school, JList(<<>>)).v)))
        ELSE ads

\* api_metrics(): [value |-> the JSON returned, cache |-> _sample_reports afterwards]
api_metrics(available, files, cache, resp) ==
    LET sb_data == IF available THEN sb_get(available, resp) ELSE JNull
        annunci == find_latest_report(files, cache, "annunci")
        spia == find_latest_report(files, annunci.cache, "spia")
    IN  [value |-> JObj([school \in {Schools[i] : i \in 1..Len(Schools)} |->
                            SchoolMetrics(school, sb_data, annunci.value,
                                          IF Truthy(sb_data) THEN JNull ELSE spia.value)]),
         cache |-> IF Truthy(sb_data) THEN annunci.cache ELSE spia.cache]

----------------------------------------------------------------------------
(* The state machine of the query side *)

HashKeys == {0, 1}      \* the keys a process may draw for str hashing

NoRet == [op |-> "none"]
NoAlert == JNull
NoEnriched == [run |-> 0]

EnrichIdle ==
    /\ alertIn = NoAlert /\ agentIn = "" /\ reportIn = JNull
    /\ enriched = NoEnriched

Init ==
    /\ sbAvailable \in BOOLEAN
    /\ fs \in FileStates
    /\ sampleFile \in {"ok", "unreadable"}
    /\ sampleCache = JNull
    /\ approvalsFile = FileMissing
    /\ sampleApprovals = "ok"
    /\ parlami_actions = <<>>
    /\ recorded = <<>>
    /\ leadsFile = FileMissing
    /\ calls = <<>>
    /\ hashKey = 0              \* no operation of this specification hashes
    /\ run = 1
    /\ EnrichIdle
    /\ ret = NoRet

EnrichUnchanged == UNCHANGED <<alertIn, agentIn, reportIn, enriched, run, hashKey>>

\* an upstream monitor writes a report file (or leaves a file that cannot be parsed)
WriteReport(path, m, kind) ==
    /\ fs' = [fs EXCEPT ![path] = [present |-> TRUE, mtime |-> m, kind |-> kind]]
    /\ fs' # fs
    /\ ret' = NoRet
    /\ UNCHANGED <<sbAvailable, sampleFile, sampleCache, approvalsFile, sampleApprovals,
                 parlami_actions, recorded, leadsFile, calls>>
    /\ EnrichUnchanged

RemoveReport(path) ==
    /\ fs[path].present
    /\ fs' = [fs EXCEPT ![path] = [present |-> FALSE]]
    /\ ret' = NoRet
    /\ UNCHANGED <<sbAvailable, sampleFile, sampleCache, approvalsFile, sampleApprovals,
                 parlami_actions, recorded, leadsFile, calls>>
    /\ EnrichUnchanged

FindLatestReport(agent_id) ==
    LET r == find_latest_report(fs, sampleCache, agent_id)
    IN  /\ ret' = [op |-> "find_latest_report", agent |-> agent_id, value |-> r.value]
        /\ sampleCache' = r.cache
        /\ UNCHANGED <<sbAvailable, fs, sampleFile, approvalsFile, sampleApprovals,
                 parlami_actions, recorded, leadsFile, calls>>
        /\ EnrichUnchanged

ApiAgents ==
    LET r == api_agents(fs, sampleCache)
    IN  /\ ret' = [op |-> "api_agents", value |-> r.value]
        /\ sampleCache' = r.cache
        /\ UNCHANGED <<sbAvailable, fs, sampleFile, approvalsFile, sampleApprovals,
                 parlami_actions, recorded, leadsFile, calls>>
        /\ EnrichUnchanged

ApiReports ==
    \E resp \in (IF sbAvailable THEN Responses(ReportsBodies) ELSE {NoRequest}) :
        LET r == api_reports(sbAvailable, fs, sampleCache, resp)
        IN  /\ ret' = [op |-> "api_reports", resp |-> resp, value |-> r.value]
            /\ sampleCache' = r.cache
            /\ UNCHANGED <<sbAvailable, fs, sampleFile, approvalsFile, sampleApprovals,
                 parlami_actions, recorded, leadsFile, calls>>
            /\ EnrichUnchanged

\* the agents whose latest report the model asks for on its own: one with a
\* dedicated pattern and a sample, one with the default patterns and no
\* sample, one with a sample and no file, one with nothing
QueriedAgents == {"annunci", "marco", "spia", "zona"}

Next ==
    \/ \E path \in FileNames, m \in 1..MaxMtime, kind \in FileKinds : WriteReport(path, m, kind)
    \/ \E path \in FileNames : RemoveReport(path)
    \/ \E agent_id \in QueriedAgents : FindLatestReport(agent_id)
    \/ ApiAgents
    \/ ApiReports

Spec == Init /\ [][Next]_vars

----------------------------------------------------------------------------
(* The query handlers over the remote store: each request meets one of the *)
(* outcomes a request to the remote store can have                         *)

\* the report directories the handlers are run against: no file, the annunci
\* report (parseable or not), the marco report
QueryFileStates ==
    {f \in FileStates : /\ ~f["marco/1.json"].present
                        /\ \A path \in FileNames : f[path].present => f[path].mtime = 1
                        /\ f["marco-1.json"].present =>
                              /\ f["marco-1.json"].kind = "ok"
                              /\ f["annunci-1.json"].present /\ f["annunci-1.json"].kind = "ok"}

\* the approvals ledger and the bundled approvals the handlers are run against
QueryApprovals ==
    {<<FileMissing, "ok">>, <<FileMissing, "unreadable">>, <<FileCorrupt, "ok">>,
     <<JList(<<ApprovalLocal>>), "ok">>}

InitQueries ==
    /\ sbAvailable \in BOOLEAN
    /\ fs \in QueryFileStates
    /\ sampleFile \in {"ok", "unreadable"}
    /\ sampleCache = JNull
    /\ \E p \in QueryApprovals : approvalsFile = p[1] /\ sampleApprovals = p[2]
    /\ parlami_actions = <<>>
    /\ recorded = <<>>
    /\ leadsFile = FileMissing
    /\ calls = <<>>
    /\ hashKey = 0
    /\ run = 1
    /\ EnrichIdle
    /\ ret = NoRet

QueryUnchanged == UNCHANGED <<sbAvailable, fs, sampleFile, approvalsFile, sampleApprovals,
                 parlami_actions, recorded, leadsFile, calls>>

ApiAlerts ==
    \E resp \in (IF sbAvailable THEN Responses(AlertsBodies) ELSE {NoRequest}) :
        LET r == api_alerts(sbAvailable, fs, sampleCache, resp)
        IN  /\ ret' = [op |-> "api_alerts", resp |-> resp, value |-> r.value]
            /\ sampleCache' = r.cache
            /\ QueryUnchanged /\ EnrichUnchanged

ApiAlertsDetailed ==
    \E resp \in (IF sbAvailable THEN Responses(AlertsBodies) ELSE {NoRequest}) :
        LET r == api_alerts_detailed(sbAvailable, fs, sampleCache, hashKey, resp)
        IN  /\ ret' = [op |-> "api_alerts_detailed", resp |-> resp, value |-> r.value]
            /\ sampleCache' = r.cache
            /\ QueryUnchanged /\ EnrichUnchanged

ApiApprovals ==
    \E resp \in (IF sbAvailable THEN Responses(ActionsBodies) ELSE {NoRequest}) :
        /\ ret' = [op |-> "api_approvals", resp |-> resp,
                   value |-> api_approvals(sbAvailable, approvalsFile, sampleApprovals, resp)]
        /\ UNCHANGED sampleCache
        /\ QueryUnchanged /\ EnrichUnchanged

ApiMetrics ==
    \E resp \in (IF sbAvailable THEN Responses(MetricsBodies) ELSE {NoRequest}) :
        LET r == api_metrics(sbAvailable, fs, sampleCache, resp)
        IN  /\ ret' = [op |-> "api_metrics", resp |-> resp, value |-> r.value]
            /\ sampleCache' = r.cache
            /\ QueryUnchanged /\ EnrichUnchanged

NextQueries == ApiReports \/ ApiAlerts \/ ApiAlertsDetailed \/ ApiApprovals \/ ApiMetrics

SpecQueries == InitQueries /\ [][NextQueries]_vars

----------------------------------------------------------------------------
(* The enrichment engine on its own: enrich_alert is called on one input,  *)
(* in one process and, after a restart, in the next                        *)

\* a field the alert does not have
Absent == [t |-> "absent"]

\* the raw alert with the fields given, those that are Absent left out
MkAlert(finding, impact, action_required, assigned_to) ==
    LET f == [finding |-> finding, school |-> JStr("beibei"), level |-> JStr("red"),
              impact_dollars |-> impact, action_required |-> action_required,
              assigned_to |-> assigned_to]
    IN  JObj([k \in {key \in DOMAIN f : f[key] # Absent} |-> f[k]])

\* finding texts: for every rule one that matches it alone, for every pair
\* of neighbouring rules of a domain one that matches both, one that matches
\* nothing, and the empty text
Findings ==
    {"Zero conversions despite $420 spend", "0 conversions and CPA too high", "CPA too high",
     "CPA high, conversions collapsed", "Clicks dropped, conversion rate good",
     "Campaign performing well", "Pages deindexed: zero results", "Zero results, page not indexed",
     "Page not appearing", "Organic clicks dropped, low CTR", "Ranking poorly",
     "Zero conversions from 90 sessions, bounce 80%", "High bounce rate",
     "Unusual pattern observed", ""}

EnrichAgents == {"annunci", "zona", "spia", "bussola", "marco"}

Impacts == {Absent, JNum(0), JNum(420), JNum(-5)}

ReportPlain ==
    JObj([date |-> JStr("2026-01-02"), campaign_breakdown |-> Campaigns,
          metrics |-> JObj([beibei |-> JObj([pages_live |-> JNum(12), pages_indexed |-> JNum(3)])])])

\* two schools, in the order of the report's text; each has a campaign with
\* no conversions and a spend above 50
ReportTwoSchools ==
    JObj([campaign_breakdown |->
            JObjOrd(<<"beibei", "amici">>,
                    [beibei |-> JList(<<JObj([name |-> JStr("Tours"), conversions |-> JNum(0), spend |-> JNum(420)]),
                                        JObj([name |-> JStr("Camps"), conversions |-> JNum(0), spend |-> JNum(90)])>>),
                     amici |-> JList(<<JObj([name |-> JStr("Open day"), conversions |-> JNum(0), spend |-> JNum(60)])>>)])])

ReportNoneQualifies ==
    JObj([campaign_breakdown |->
            JObj([beibei |-> JList(<<JObj([name |-> JStr("Brand"), conversions |-> JNum(0), spend |-> JNum(40)]),
                                     JObj([name |-> JStr("Tours"), conversions |-> JNum(2), spend |-> JNum(420)])>>)])])

Input(alert, agent_id, report) == [alert |-> alert, agent |-> agent_id, report |-> report]

\* the inputs enrich_alert is run on
EnrichInputs ==
    {Input(MkAlert(JStr(f), i, JStr("Review manually"), Absent), a, ReportPlain) :
        f \in Findings, i \in Impacts, a \in EnrichAgents}
    \cup {Input(MkAlert(JStr(f), JNum(105), ar, at), a, ReportPlain) :
            f \in {"Unusual pattern observed", "Ranking poorly"}, ar \in {Absent, JStr("Review manually"), JStr("")},
            at \in {Absent, JStr("penna")}, a \in {"marco", "annunci", "spia"}}
    \cup {Input(MkAlert(JStr("Zero conversions despite $420 spend"), JNum(420), Absent, Absent), "annunci", r) :
            r \in {ReportTwoSchools, ReportNoneQualifies, EmptyObj, JNull}}
    \cup {Input(MkAlert(JStr("Pages deindexed: zero results"), JNum(105), Absent, Absent), "zona", r) :
            r \in {EmptyObj, JNull}}
    \cup {Input(MkAlert(f, i, Absent, Absent), "annunci", ReportPlain) :
            f \in {Absent, JNull}, i \in {JNum(105)}}
    \cup {Input(MkAlert(JStr("CPA too high"), i, Absent, Absent), "annunci", ReportPlain) :
            i \in {JNull, JStr("420")}}

InitEnrich ==
    /\ sbAvailable = FALSE
    /\ fs = [path \in FileNames |-> [present |-> FALSE]]
    /\ sampleFile = "ok"
    /\ sampleCache = JNull
    /\ approvalsFile = FileMissing
    /\ sampleApprovals = "ok"
    /\ parlami_actions = <<>>
    /\ recorded = <<>>
    /\ leadsFile = FileMissing
    /\ calls = <<>>
    /\ hashKey \in HashKeys
    /\ run = 1
    /\ \E inp \in EnrichInputs : alertIn = inp.alert /\ agentIn = inp.agent /\ reportIn = inp.report
    /\ enriched = NoEnriched
    /\ ret = NoRet

\* a handler calls enrich_alert(alert, agent_id, report)
Enrich ==
    /\ enriched' = [run |-> run, out |-> enrich_alert(alertIn, agentIn, reportIn, hashKey)]
    /\ UNCHANGED <<sbAvailable, fs, sampleFile, sampleCache, approvalsFile, sampleApprovals, parlami_actions, recorded, leadsFile, calls,
                   hashKey, alertIn, agentIn, reportIn, run, ret>>

\* the program is stopped and started again: the new process draws its own
\* hash key and starts with nothing cached; what the previous process sent
\* out (enriched) stays with whoever received it
Restart ==
    /\ run < MaxRuns
    /\ run' = run + 1
    /\ hashKey' \in HashKeys
    /\ sampleCache' = JNull
    /\ ret' = NoRet
    /\ UNCHANGED <<sbAvailable, fs, sampleFile, approvalsFile, sampleApprovals, parlami_actions, recorded, leadsFile, calls,
                   alertIn, agentIn, reportIn, enriched>>

NextEnrich == Enrich \/ Restart

SpecEnrich == InitEnrich /\ [][NextEnrich]_vars

----------------------------------------------------------------------------
(* The ranking of api_alerts_detailed on its own: the two sorts of the     *)
(* handler applied to a list of enriched alerts                            *)

MaxAlerts == 3      \* the longest list that is ranked

\* the three levels of the order table and one it does not hold
RankLevels == {"red", "yellow", "green", "purple"}

RankImpacts == {0, 100}

\* the k-th alert of a list, as enrich_alert (or a row of parlami_alerts)
\* gives it: the alert_id tells where it stood
RankAlert(k, level, impact) ==
    JObj([alert_id |-> JStr("a" \o NatStr(k)), level |-> JStr(level),
          impact_monthly |-> JNum(impact), evidence |-> JList(<<>>), fixes |-> JList(<<>>)])

\* every list of at most MaxAlerts alerts
RankInputs ==
    UNION {{[k \in 1..n |-> RankAlert(k, q[k][1], q[k][2])] :
                q \in [1..n -> RankLevels \X RankImpacts]} : n \in 0..MaxAlerts}

InitRank ==
    /\ sbAvailable \in BOOLEAN
    /\ fs = [path \in FileNames |-> [present |-> FALSE]]
    /\ sampleFile = "ok"
    /\ sampleCache = JNull
    /\ approvalsFile = FileMissing
    /\ sampleApprovals = "ok"
    /\ parlami_actions = <<>>
    /\ recorded = <<>>
    /\ leadsFile = FileMissing
    /\ calls = <<>>
    /\ hashKey = 0
    /\ run = 1
    /\ \E alerts \in RankInputs : alertIn = JList(alerts)
    /\ agentIn = "annunci"
    /\ reportIn = JNull
    /\ enriched = NoEnriched
    /\ ret = NoRet

RankUnchanged ==
    UNCHANGED <<sbAvailable, fs, sampleFile, sampleCache, approvalsFile, sampleApprovals, parlami_actions, recorded, leadsFile, calls,
                hashKey, alertIn, agentIn, reportIn, enriched, run>>

\* the local branch: all_alerts.sort(key=...) on the enriched alerts
RankLocal ==
    /\ ~sbAvailable
    /\ ret' = [op |-> "rank", value |-> SortedDetailed([value |-> alertIn, cache |-> JNull]).value]
    /\ RankUnchanged

\* the remote branch: sb_alerts.sort(key=...) on the rows of parlami_alerts
RankRemote ==
    /\ sbAvailable
    /\ ret' = [op |-> "rank", value |-> JList(RemoteDetailed(alertIn.v))]
    /\ RankUnchanged

NextRank == RankLocal \/ RankRemote

SpecRank == InitRank /\ [][NextRank]_vars

----------------------------------------------------------------------------
(* The approval ledger: POST /api/fix, save_approval and _sb_upsert *)

JBool(b) == [t |-> "bool", v |-> b]

\* the fields api_fix reads with data.get(k, default), and their defaults
ApprovalDefaults ==
    [alert_id |-> "", fix_action |-> "", school |-> "", campaign |-> "", description |-> "",
     estimated_impact |-> "", approved_by |-> "client"]

\* an approval that takes its status from the request
Approval_CallerStatus(data, now) ==
    JObj([k \in (DOMAIN ApprovalDefaults) \cup {"timestamp", "status"} |->
            IF k = "status" THEN Get(data, "status", JStr("approved"))
            ELSE IF k = "timestamp" THEN Get(data, "timestamp", JStr(now))
            ELSE Get(data, k, JStr(ApprovalDefaults[k]))])

\* approval = {"alert_id": data.get("alert_id", ""), ..., "timestamp":
\* data.get("timestamp", datetime.now(timezone.utc).isoformat()), "status": "approved"}
Approval(data, now) ==
    JObj([k \in (DOMAIN ApprovalDefaults) \cup {"timestamp", "status"} |->
            IF k = "status" THEN JStr("approved")
            ELSE IF k = "timestamp" THEN Get(data, "timestamp", JStr(now))
            ELSE Get(data, k, JStr(ApprovalDefaults[k]))])

\* what opening and writing APPROVALS_FILE can come to: it is written; the
\* directory or the file cannot be opened for writing; the file is opened
\* (and so truncated) and the write fails part-way
WriteOutcomes == {"ok", "denied", "torn"}

\* a save that keeps a failed write to itself
save_approval_Swallowing(approval, file, sample, write) ==
    IF write = "ok"
    THEN [file |-> JList(Append(load_approvals(file, sample).v, approval)), raised |-> FALSE]
    ELSE [file |-> file, raised |-> FALSE]

\* a save that writes the new approval alone
save_approval_DropsRead(approval, file, sample, write) ==
    CASE write = "denied" -> [file |-> file, raised |-> TRUE]
      [] write = "torn" -> [file |-> FileCorrupt, raised |-> TRUE]
      [] OTHER -> [file |-> JList(<<approval>>), raised |-> FALSE]

\* save_approval(approval): the file afterwards, and whether it raised
save_approval(approval, file, sample, write) ==
    LET approvals == load_approvals(file, sample)
    IN  CASE write = "denied" -> [file |-> file, raised |-> TRUE]
          [] write = "torn" -> [file |-> FileCorrupt, raised |-> TRUE]
          [] OTHER -> [file |-> JList(Append(approvals.v, approval)), raised |-> FALSE]

\* json.dumps(x) for a string or None
JsonDumps(j) == IF j = JNull THEN "null" ELSE "\"" \o PyStr(j) \o "\""

\* action_row, the row api_fix sends to parlami_actions
ActionRow(approval) ==
    JObj([alert_id |-> Get(approval, "alert_id", JStr("")),
          client_slug |-> Get(approval, "school", JStr("unknown")),
          school |-> Get(approval, "school", JStr("unknown")),
          agent |-> Get(approval, "fix_action", JStr("manual")),
          action_type |-> Get(approval, "fix_action", JStr("manual_review")),
          description |-> Get(approval, "description", JStr("")),
          estimated_impact |-> Get(approval, "estimated_impact", JStr("")),
          status |-> JStr("approved"),
          approved_by |-> Get(approval, "approved_by", JStr("client")),
          result |-> JStr("{\"campaign\": " \o JsonDumps(Get(approval, "campaign", JStr("")))
                          \o ", \"timestamp\": " \o JsonDumps(Get(approval, "timestamp", JNull)) \o "}")])

\* what the POST to parlami_actions can come to; stored tells whether the
\* remote store took the row (after a timeout it may or may not have)
UpsertResponses ==
    {[outcome |-> "response", status |-> 201, body |-> JList(<<>>), stored |-> TRUE],
     [outcome |-> "response", status |-> 200, body |-> JNull, stored |-> TRUE],
     [outcome |-> "response", status |-> 500, body |-> JNull, stored |-> FALSE],
     [outcome |-> "exception", status |-> 0, body |-> JNull, stored |-> FALSE],
     [outcome |-> "timeout", status |-> 0, body |-> JNull, stored |-> FALSE],
     [outcome |-> "timeout", status |-> 0, body |-> JNull, stored |-> TRUE]}

NoUpsert == [outcome |-> "none", status |-> 0, body |-> JNull, stored |-> FALSE]

\* _sb_upsert(table, data): the rows the store answers with, or JNull (None)
sb_upsert(available, resp) ==
    IF ~available THEN JNull
    ELSE IF resp.outcome # "response" THEN JNull            \* except Exception
    ELSE IF resp.status \in {200, 201}
         THEN (IF resp.body = JNull THEN JNull              \* resp.json() raises
               ELSE resp.body)
         ELSE JNull

\* a demo check that looks at the query parameter alone
IsDemo_QueryOnly(req) == req.args_demo = JStr("true")

\* request.args.get("demo") == "true" or request.referrer and "demo=true" in request.referrer
IsDemo(req) ==
    \/ req.args_demo = JStr("true")
    \/ (Truthy(req.referrer) /\ Contains(req.referrer.v, "demo=true"))

\* a mirror write whose failure leaves the block as an exception
Mirror_Unguarded(approval, available, table, resp) ==
    IF ~available THEN [table |-> table, upsert |-> JNull, posted |-> FALSE, raised |-> FALSE]
    ELSE [table |-> IF resp.stored THEN Append(table, ActionRow(approval)) ELSE table,
          upsert |-> sb_upsert(available, resp), posted |-> TRUE,
          raised |-> sb_upsert(available, resp) = JNull]

\* if _SUPABASE_AVAILABLE: try: _sb_upsert("parlami_actions", action_row)
\* except Exception: pass -- the table afterwards, what _sb_upsert returned,
\* whether the request was made, and whether the block raised (it never does)
Mirror(approval, available, table, resp) ==
    IF ~available THEN [table |-> table, upsert |-> JNull, posted |-> FALSE, raised |-> FALSE]
    ELSE [table |-> IF resp.stored THEN Append(table, ActionRow(approval)) ELSE table,
          upsert |-> sb_upsert(available, resp), posted |-> TRUE, raised |-> FALSE]

\* api_fix(): the HTTP status and the body (or the exception that leaves the
\* handler), the log file and the remote table afterwards, what _sb_upsert
\* returned, and the writes made, in the order they were made
api_fix(req, now, file, sample, available, table, write, resp) ==
    IF IsDemo(req)
    THEN [status |-> 403,
          value |-> JObj([error |-> JStr("Demo mode - actions disabled"), demo |-> JBool(TRUE)]),
          file |-> file, table |-> table, upsert |-> JNull, effects |-> <<>>]
    ELSE IF ~Truthy(req.data)                                \* if not data
    THEN [status |-> 400, value |-> JObj([error |-> JStr("No JSON body")]),
          file |-> file, table |-> table, upsert |-> JNull, effects |-> <<>>]
    ELSE IF ~IsObj(req.data)                                 \* data.get on a list
    THEN [status |-> 500, value |-> Raise("AttributeError"),
          file |-> file, table |-> table, upsert |-> JNull, effects |-> <<>>]
    ELSE LET approval == Approval(req.data, now)
             saved == save_approval(approval, file, sample, write)
             written == IF write = "denied" THEN <<>> ELSE <<"local_write">>
         IN  IF saved.raised                                 \* the exception leaves the handler
             THEN [status |-> 500, value |-> Raise("OSError"),
                   file |-> saved.file, table |-> table, upsert |-> JNull, effects |-> written]
             ELSE LET m == Mirror(approval, available, table, resp)
                      posted == IF m.posted THEN <<"remote_post">> ELSE <<>>
                  IN  IF m.raised
                      THEN [status |-> 500, value |-> Raise("Exception"), file |-> saved.file,
                            table |-> m.table, upsert |-> m.upsert, effects |-> written \o posted]
                      ELSE [status |-> 200,
                            value |-> JObj([success |-> JBool(TRUE), approval |-> approval]),
                            file |-> saved.file, table |-> m.table, upsert |-> m.upsert,
                            effects |-> written \o posted]

----------------------------------------------------------------------------
(* The ledger's state machine: one request to /api/fix against every       *)
(* request body and outcome (SpecFix), and sequences of requests (SpecLedger) *)

MaxRecords == 2     \* approvals recorded in one behaviour of SpecLedger

\* readings of the clock, as datetime.now(timezone.utc).isoformat() gives them
Instants == {"2026-03-02T10:00:00+00:00", "2026-03-03T10:00:00+00:00"}

\* a body that names every field, with a timestamp and a status of its own
FullBody ==
    JObj([alert_id |-> JStr("beibei-annunci-3"), fix_action |-> JStr("pause_campaign"),
          school |-> JStr("beibei"), campaign |-> JStr("Tours"),
          description |-> JStr("Pause the campaign"), estimated_impact |-> JStr("Save ~$1680/month"),
          approved_by |-> JStr("maria"), timestamp |-> JStr("2026-03-01T09:00:00+00:00"),
          status |-> JStr("rejected")])

\* the dict d without the keys given
Without(d, keys) == JObj([k \in (DOMAIN d.v) \ keys |-> d.v[k]])

\* what request.get_json() may give: nothing, an empty dict, a list, and the
\* full body with every subset of the identifying fields left out, with and
\* without a timestamp and a status
FixBodies ==
    {JNull, EmptyObj, JList(<<JStr("x")>>)}
    \cup {Without(FullBody, omitted) : omitted \in SUBSET (DOMAIN ApprovalDefaults)}
    \cup {Without(FullBody, omitted \cup {"timestamp", "status"}) :
            omitted \in {{}, {"approved_by"}, (DOMAIN ApprovalDefaults) \ {"alert_id"}}}
    \cup {Without(FullBody, (DOMAIN ApprovalDefaults) \cup {"timestamp"}),
          Put(Without(FullBody, {"school"}), "timestamp", JNull)}

Request(args_demo, referrer, data) == [args_demo |-> args_demo, referrer |-> referrer, data |-> data]

\* the requests of SpecFix: every body outside demo mode, and the full body
\* with and without the demo parameter and a demo referrer
FixRequests ==
    {Request(JNull, JNull, data) : data \in FixBodies}
    \cup {Request(a, r, FullBody) :
            a \in {JNull, JStr("true"), JStr("false")},
            r \in {JNull, JStr("http://app/?demo=true"), JStr("http://app/")}}

\* the requests of SpecLedger
LedgerRequests ==
    {Request(JNull, JNull, data) :
        data \in {FullBody, EmptyObj,
                  Without(FullBody, ((DOMAIN ApprovalDefaults) \ {"alert_id"}) \cup {"timestamp", "status"})}}
    \cup {Request(JStr("true"), JNull, FullBody)}

\* the request gets as far as save_approval
Saves(req) == ~IsDemo(req) /\ Truthy(req.data) /\ IsObj(req.data)

\* a client posts to /api/fix
ApiFix(req, now, write, resp) ==
    LET r == api_fix(req, now, approvalsFile, sampleApprovals, sbAvailable, parlami_actions, write, resp)
    IN  /\ approvalsFile' = r.file
        /\ parlami_actions' = r.table
        /\ recorded' = IF r.status = 200 THEN Append(recorded, r.value.v.approval) ELSE recorded
        /\ ret' = [op |-> "api_fix", request |-> req, now |-> now, write |-> write, resp |-> resp,
                   before |-> approvalsFile, status |-> r.status, value |-> r.value,
                   upsert |-> r.upsert, effects |-> r.effects]
        /\ UNCHANGED <<sbAvailable, fs, sampleFile, sampleCache, sampleApprovals, leadsFile, calls>>
        /\ EnrichUnchanged

\* the outcomes a request can meet: of the local write when it gets to it,
\* and of the POST when the remote store is configured and the write went well
FixOutcomes(req) ==
    IF ~Saves(req) THEN {<<"none", NoUpsert>>}
    ELSE {<<w, NoUpsert>> : w \in (IF sbAvailable THEN WriteOutcomes \ {"ok"} ELSE WriteOutcomes)}
         \cup (IF sbAvailable THEN {<<"ok", resp>> : resp \in UpsertResponses} ELSE {})

InitFix ==
    /\ sbAvailable \in BOOLEAN
    /\ fs = [path \in FileNames |-> [present |-> FALSE]]
    /\ sampleFile = "ok"
    /\ sampleCache = JNull
    /\ approvalsFile \in {FileMissing, JList(<<ApprovalLocal>>)}
    /\ sampleApprovals \in {"ok", "unreadable"}
    /\ parlami_actions = <<>>
    /\ recorded = <<>>
    /\ leadsFile = FileMissing
    /\ calls = <<>>
    /\ hashKey = 0
    /\ run = 1
    /\ EnrichIdle
    /\ ret = NoRet

\* the first request after the program started
NextFix ==
    /\ ret = NoRet
    /\ \E req \in FixRequests, now \in Instants :
          \E o \in FixOutcomes(req) : ApiFix(req, now, o[1], o[2])

SpecFix == InitFix /\ [][NextFix]_vars

InitLedger ==
    /\ sbAvailable \in BOOLEAN
    /\ fs = [path \in FileNames |-> [present |-> FALSE]]
    /\ sampleFile = "ok"
    /\ sampleCache = JNull
    /\ approvalsFile = FileMissing                 \* no approval was recorded yet
    /\ sampleApprovals \in {"ok", "unreadable"}
    /\ parlami_actions = <<>>
    /\ recorded = <<>>
    /\ leadsFile = FileMissing
    /\ calls = <<>>
    /\ hashKey = 0
    /\ run = 1
    /\ EnrichIdle
    /\ ret = NoRet

\* one request after the other
NextLedger ==
    /\ Len(recorded) < MaxRecords
    /\ \E req \in LedgerRequests, now \in Instants :
          \E o \in FixOutcomes(req) : ApiFix(req, now, o[1], o[2])

SpecLedger == InitLedger /\ [][NextLedger]_vars

\* the rows of a table, newest first (order=created_at.desc)
RECURSIVE NewestFirst(_)
NewestFirst(rows) ==
    IF rows = <<>> THEN <<>> ELSE Append(NewestFirst(Tail(rows)), Head(rows))

\* what the GET on parlami_actions can come to while the table holds rows:
\* the rows, no answer within the timeout, or an error of the store
ReadResponses(rows) ==
    {[outcome |-> "response", status |-> 200, body |-> JList(NewestFirst(rows))],
     [outcome |-> "timeout", status |-> 0, body |-> JNull],
     [outcome |-> "response", status |-> 500, body |-> JNull]}

\* a client asks /api/approvals for the approvals recorded so far
ListApprovals ==
    /\ \E resp \in (IF sbAvailable THEN ReadResponses(parlami_actions) ELSE {NoRequest}) :
          ret' = [op |-> "api_approvals", resp |-> resp,
                  value |-> api_approvals(sbAvailable, approvalsFile, sampleApprovals, resp)]
    /\ UNCHANGED <<sbAvailable, fs, sampleFile, sampleCache, approvalsFile, sampleApprovals,
                   parlami_actions, recorded, leadsFile, calls>>
    /\ EnrichUnchanged

\* requests to /api/fix, one after the other, and reads of /api/approvals
\* between them
NextReadBack ==
    \/ NextLedger
    \/ ListApprovals

SpecReadBack == InitLedger /\ [][NextReadBack]_vars

----------------------------------------------------------------------------
(* Concurrent requests to /api/fix: the server runs each request in a      *)
(* thread (or worker process) of its own, and save_approval takes no lock, *)
(* so its statements interleave with those of the other requests           *)

MaxWorkers == 2     \* requests in flight at once

Workers == 1..MaxWorkers

\* the body worker w posts: every field, and an alert_id of its own
RaceBody(w) == Put(Without(FullBody, {"status"}), "alert_id", JStr("beibei-annunci-" \o NatStr(w)))

InitRace ==
    /\ sbAvailable = FALSE
    /\ fs = [path \in FileNames |-> [present |-> FALSE]]
    /\ sampleFile = "ok"
    /\ sampleCache = JNull
    /\ approvalsFile \in {FileMissing, JList(<<ApprovalLocal>>)}
    /\ sampleApprovals \in {"ok", "unreadable"}
    /\ parlami_actions = <<>>
    /\ recorded = <<>>
    /\ leadsFile = FileMissing
    /\ calls = [w \in Workers |-> [op |-> "api_fix", pc |-> "start", request |-> Request(JNull, JNull, RaceBody(w))]]
    /\ hashKey = 0
    /\ run = 1
    /\ EnrichIdle
    /\ ret = NoRet

RaceUnchanged ==
    /\ UNCHANGED <<sbAvailable, fs, sampleFile, sampleCache, sampleApprovals, parlami_actions, leadsFile, ret>>
    /\ EnrichUnchanged

\* api_fix up to the call of save_approval: the checks and the approval
FixStart(w) ==
    /\ calls[w].pc = "start"
    /\ Saves(calls[w].request)
    /\ \E now \in Instants :
          calls' = [calls EXCEPT ![w] = [op |-> "api_fix", pc |-> "load", request |-> calls[w].request,
                                         approval |-> Approval(calls[w].request.data, now)]]
    /\ UNCHANGED <<approvalsFile, recorded>>
    /\ RaceUnchanged

\* approvals = load_approvals()
FixLoad(w) ==
    /\ calls[w].pc = "load"
    /\ calls' = [calls EXCEPT ![w] = [op |-> "api_fix", pc |-> "open", request |-> calls[w].request,
                                     approval |-> calls[w].approval,
                                     approvals |-> load_approvals(approvalsFile, sampleApprovals)]]
    /\ UNCHANGED <<approvalsFile, recorded>>
    /\ RaceUnchanged

\* approvals.append(approval); open(APPROVALS_FILE, "w"): the file is
\* truncated, and holds no JSON until the dump
FixOpen(w) ==
    /\ calls[w].pc = "open"
    /\ approvalsFile' = FileCorrupt
    /\ calls' = [calls EXCEPT ![w].pc = "dump"]
    /\ UNCHANGED recorded
    /\ RaceUnchanged

\* json.dump(approvals, f, indent=2): what this request read, and its approval
FixDump(w) ==
    /\ calls[w].pc = "dump"
    /\ approvalsFile' = save_approval(calls[w].approval, calls[w].approvals, sampleApprovals, "ok").file
    /\ calls' = [calls EXCEPT ![w].pc = "respond"]
    /\ UNCHANGED recorded
    /\ RaceUnchanged

\* return jsonify({"success": True, "approval": approval}) (the remote store
\* is not configured)
FixRespond(w) ==
    /\ calls[w].pc = "respond"
    /\ calls' = [calls EXCEPT ![w].pc = "done"]
    /\ recorded' = Append(recorded, calls[w].approval)
    /\ UNCHANGED approvalsFile
    /\ RaceUnchanged

NextRace ==
    \E w \in Workers : FixStart(w) \/ FixLoad(w) \/ FixOpen(w) \/ FixDump(w) \/ FixRespond(w)

SpecRace == InitRace /\ [][NextRace]_vars

----------------------------------------------------------------------------
(* Lead capture: /api/demo-request saves the lead, starts the two          *)
(* notifications in daemon threads of their own and answers                *)

\* _load_leads(): the list in LEADS_FILE, or [] when it cannot be read
load_leads(file) == IF IsList(file) THEN file ELSE JList(<<>>)

\* _save_lead(lead): the file afterwards, and whether it raised
save_lead(lead, file, write) ==
    LET leads == load_leads(file)
    IN  CASE write = "denied" -> [file |-> file, raised |-> TRUE]
          [] write = "torn" -> [file |-> FileCorrupt, raised |-> TRUE]
          [] OTHER -> [file |-> JList(Append(leads.v, lead)), raised |-> FALSE]

\* the keys of a lead that default to ""
LeadKeys == {"name", "school", "email", "phone", "website", "message"}

\* lead, as demo_request builds it from data = request.get_json() or {}
Lead(data, now) ==
    JObj([k \in LeadKeys \cup {"timestamp", "source"} |->
            IF k = "timestamp" THEN JStr(now)
            ELSE IF k = "source" THEN Get(data, "source", JStr("website"))
            ELSE Get(data, k, JStr(""))])

\* the two targets demo_request hands to threading.Thread
Notifiers == {"_send_discord_webhook", "_send_email_notification"}

\* what a started notification can come to: its service is not configured
\* and it returns at once; it is sent; it fails and the except clause prints
\* the error; it ends with an exception the except clause does not catch.
\* One that never finishes stays "running"
DispatchOutcomes == {"skipped", "sent", "caught", "raised"}

\* the body of the answer of a saved lead
ThankYou ==
    JObj([ok |-> JBool(TRUE),
          message |-> JStr("Thank you! We'll contact you within 1 business day.")])

\* a handler that joins its threads and reports a failed notification
demo_response_Joined(threads) ==
    IF \E n \in Notifiers : threads[n] \in {"caught", "raised"}
    THEN [status |-> 500, value |-> Raise("NotificationError")]
    ELSE [status |-> 200, value |-> ThankYou]

\* resp = jsonify({...}); return resp: the handler keeps no reference to the
\* threads it started and reads nothing of them
demo_response(threads) == [status |-> 200, value |-> ThankYou]

\* the bodies posted to /api/demo-request
LeadBodies ==
    {JNull, EmptyObj, JList(<<JStr("Ada")>>),
     JObj([name |-> JStr("Ada"), email |-> JStr("ada@example.org")]),
     JObj([name |-> JStr("Ada"), school |-> JStr("Bei Bei"), email |-> JStr("ada@example.org"),
           phone |-> JNull, website |-> JStr(""), message |-> JStr("Call me"),
           source |-> JStr("landing")])}

\* a lead saved by an earlier request
LeadBefore == Lead(JObj([name |-> JStr("Bob")]), "2026-03-01T10:00:00+00:00")

\* no thread has been started
NoThreads == [n \in Notifiers |-> "unstarted"]

InitLeads ==
    /\ sbAvailable = FALSE
    /\ fs = [path \in FileNames |-> [present |-> FALSE]]
    /\ sampleFile = "ok"
    /\ sampleCache = JNull
    /\ approvalsFile = FileMissing
    /\ sampleApprovals = "ok"
    /\ parlami_actions = <<>>
    /\ recorded = <<>>
    /\ leadsFile \in {FileMissing, FileCorrupt, JList(<<LeadBefore>>)}
    /\ calls = [op |-> "demo_request", pc |-> "start", threads |-> NoThreads]
    /\ hashKey = 0
    /\ run = 1
    /\ EnrichIdle
    /\ ret = NoRet

LeadsUnchanged ==
    /\ UNCHANGED <<sbAvailable, fs, sampleFile, sampleCache, approvalsFile, sampleApprovals,
                   parlami_actions, recorded>>
    /\ EnrichUnchanged

\* demo_request (POST) from its first statement to the second Thread.start():
\* a body that is no object raises on data.get, a failed write raises in
\* _save_lead, and either ends the request before any thread is started
DemoSave(body, now, write) ==
    /\ calls.pc = "start"
    /\ LET data == IF Truthy(body) THEN body ELSE EmptyObj
       IN  IF ~IsObj(data)
           THEN /\ calls' = [calls EXCEPT !.pc = "failed"]
                /\ ret' = [op |-> "demo_request", status |-> 500, value |-> Raise("AttributeError"),
                           threads |-> NoThreads]
                /\ UNCHANGED leadsFile
           ELSE LET lead == Lead(data, now)
                    saved == save_lead(lead, leadsFile, write)
                IN  /\ leadsFile' = saved.file
                    /\ IF saved.raised
                       THEN /\ calls' = [calls EXCEPT !.pc = "failed"]
                            /\ ret' = [op |-> "demo_request", status |-> 500, value |-> Raise("OSError"),
                                       threads |-> NoThreads]
                       ELSE /\ calls' = [op |-> "demo_request", pc |-> "spawned", lead |-> lead,
                                         saved |-> saved.file,
                                         threads |-> [n \in Notifiers |-> "running"]]
                            /\ UNCHANGED ret
    /\ LeadsUnchanged

\* the rest of demo_request: the answer, with the threads as they stand now
DemoRespond ==
    /\ calls.pc = "spawned"
    /\ LET resp == demo_response(calls.threads)
       IN  ret' = [op |-> "demo_request", status |-> resp.status, value |-> resp.value,
                   threads |-> calls.threads]
    /\ calls' = [calls EXCEPT !.pc = "responded"]
    /\ UNCHANGED leadsFile
    /\ LeadsUnchanged

\* a started notification ends: neither target touches LEADS_FILE or the
\* response
Notify(n, outcome) ==
    /\ calls.threads[n] = "running"
    /\ calls' = [calls EXCEPT !.threads[n] = outcome]
    /\ UNCHANGED <<leadsFile, ret>>
    /\ LeadsUnchanged

NextLeads ==
    \/ \E body \in LeadBodies, now \in Instants, write \in WriteOutcomes : DemoSave(body, now, write)
    \/ DemoRespond
    \/ \E n \in Notifiers, outcome \in DispatchOutcomes : Notify(n, outcome)

SpecLeads == InitLeads /\ [][NextLeads]_vars

----------------------------------------------------------------------------
(* Concurrent queries: find_latest_report and enrich_alert in requests     *)
(* that run at once over the same files, and the one global they share,    *)
(* _sample_reports, which the first caller to need it loads                *)

\* a loader that publishes the dict before it fills it
SampleAssignments_EmptyFirst(cache) == <<EmptyObj, load_sample_reports(cache)>>

\* the values _load_sample_reports assigns to _sample_reports, in order, when
\* it finds the global unset: the loaded document, or {} when it cannot be read
SampleAssignments(cache) == <<load_sample_reports(cache)>>

\* the invocations that run at once: the latest report of an agent, or that
\* report's alerts enriched as api_alerts_detailed does for one agent
SharedOps ==
    {[op |-> "find_latest_report", agent |-> "annunci"],
     [op |-> "find_latest_report", agent |-> "zona"],
     [op |-> "enrich_alert", agent |-> "annunci"]}

\* the report files the invocations find: none, a readable annunci report, one
\* that cannot be parsed
SharedFiles ==
    {[path \in FileNames |-> [present |-> FALSE]],
     [path \in FileNames |-> IF path = "annunci-1.json"
                             THEN [present |-> TRUE, mtime |-> 1, kind |-> "ok"]
                             ELSE [present |-> FALSE]],
     [path \in FileNames |-> IF path = "annunci-1.json"
                             THEN [present |-> TRUE, mtime |-> 1, kind |-> "bad"]
                             ELSE [present |-> FALSE]]}

\* what the invocation returns from the report it was given
SharedResult(c, report, key) ==
    IF c.op = "find_latest_report" THEN report
    ELSE EnrichEach(IF Truthy(report) THEN Get(report, "alerts", JList(<<>>)).v ELSE <<>>,
                    1, c.agent, report, key, <<>>)

\* the invocation run alone in a process that has loaded nothing yet
Alone(c, files, key) == SharedResult(c, find_latest_report(files, JNull, c.agent).value, key)

InitShared ==
    /\ sbAvailable = FALSE
    /\ fs \in SharedFiles
    /\ sampleFile \in {"ok", "unreadable"}
    /\ sampleCache = JNull
    /\ approvalsFile = FileMissing
    /\ sampleApprovals = "ok"
    /\ parlami_actions = <<>>
    /\ recorded = <<>>
    /\ leadsFile = FileMissing
    /\ calls \in [Workers -> {[op |-> c.op, agent |-> c.agent, pc |-> "start", at |-> 1,
                               loaded |-> FALSE, report |-> JNull, result |-> JNull] : c \in SharedOps}]
    /\ hashKey \in HashKeys
    /\ run = 1
    /\ EnrichIdle
    /\ ret = NoRet

SharedUnchanged ==
    /\ UNCHANGED <<sbAvailable, fs, sampleFile, approvalsFile, sampleApprovals, parlami_actions,
                   recorded, leadsFile, ret>>
    /\ EnrichUnchanged

\* find_latest_report up to its return or its call of _load_sample_reports:
\* the globs, max by mtime, open and json.load
ReportStart(w) ==
    /\ calls[w].pc = "start"
    /\ LET paths == MatchingFiles(fs, calls[w].agent)
       IN  IF paths # <<>> /\ fs[MaxByMtime(fs, paths)].kind = "ok"
           THEN calls' = [calls EXCEPT ![w].pc = "found",
                                       ![w].report = FileDoc(MaxByMtime(fs, paths))]
           ELSE calls' = [calls EXCEPT ![w].pc = "check"]
    /\ UNCHANGED sampleCache
    /\ SharedUnchanged

\* if _sample_reports is None:
SampleCheck(w) ==
    /\ calls[w].pc = "check"
    /\ calls' = [calls EXCEPT ![w].pc = IF sampleCache = JNull THEN "load" ELSE "return"]
    /\ UNCHANGED sampleCache
    /\ SharedUnchanged

\* the try block of _load_sample_reports: one assignment to the global
SampleLoad(w) ==
    /\ calls[w].pc = "load"
    /\ LET steps == SampleAssignments(JNull)
       IN  /\ sampleCache' = steps[calls[w].at]
           /\ calls' = [calls EXCEPT ![w].at = @ + 1, ![w].loaded = TRUE,
                                     ![w].pc = IF calls[w].at = Len(steps) THEN "return" ELSE "load"]
    /\ SharedUnchanged

\* return _sample_reports, and .get(agent_id) on what the global holds now
SampleReturn(w) ==
    /\ calls[w].pc = "return"
    /\ calls' = [calls EXCEPT ![w].pc = "found", ![w].report = Get(sampleCache, calls[w].agent, JNull)]
    /\ UNCHANGED sampleCache
    /\ SharedUnchanged

\* the caller uses the report: returns it, or enriches its alerts
SharedFinish(w) ==
    /\ calls[w].pc = "found"
    /\ calls' = [calls EXCEPT ![w].pc = "done",
                              ![w].result = SharedResult(calls[w], calls[w].report, hashKey)]
    /\ UNCHANGED sampleCache
    /\ SharedUnchanged

NextShared ==
    \E w \in Workers :
        ReportStart(w) \/ SampleCheck(w) \/ SampleLoad(w) \/ SampleReturn(w) \/ SharedFinish(w)

SpecShared == InitShared /\ [][NextShared]_vars

----------------------------------------------------------------------------
(* What the three tiers hold for an agent, stated from the file system, the *)
(* bundled samples and the remote response, not from the resolver          *)

\* the present files that one of the agent's glob patterns matches
MatchSet(agent_id) ==
    {path \in FileNames : /\ fs[path].present
                          /\ \E i \in 1..Len(Patterns(agent_id)) : GlobMatch(Patterns(agent_id)[i], path)}

\* those of them that no matching file is newer than
Newest(agent_id) ==
    {path \in MatchSet(agent_id) : \A q \in MatchSet(agent_id) : fs[q].mtime <= fs[path].mtime}

\* the agent's document in data/sample_reports.json, JNull when it has none
BundledSample(agent_id) == IF sampleFile = "ok" THEN Get(SampleReports, agent_id, JNull) ELSE JNull

LocalHas(agent_id) ==
    MatchSet(agent_id) # {} /\ \A path \in Newest(agent_id) : fs[path].kind = "ok"

SampleHas(agent_id) == BundledSample(agent_id) # JNull

RemoteHas(resp, agent_id) ==
    /\ resp.outcome = "response" /\ resp.status = 200 /\ IsList(resp.body)
    /\ \E i \in 1..Len(resp.body.v) : Get(resp.body.v[i], "agent", JNull) = JStr(agent_id)

----------------------------------------------------------------------------
(* Claims about the source resolver *)

\* C1: find_latest_report for an agent with matching local files returns
\* exactly the parsed content of the matching file with the greatest
\* modification time (when that file parses; C4 covers the other case), and
\* for an agent with no matching local file it returns the agent's bundled
\* sample document. The remote store plays no part in find_latest_report.
C1_NewestLocalFileOrSample ==
    ret.op = "find_latest_report" =>
        /\ MatchSet(ret.agent) = {} => ret.value = BundledSample(ret.agent)
        /\ LocalHas(ret.agent) => \E path \in Newest(ret.agent) : ret.value = FileDoc(path)

\* two files match, the newer one is listed after the older one, and the
\* newer one's content is what came back
C1_Witness ==
    /\ ret.op = "find_latest_report" /\ ret.agent = "marco"
    /\ fs["marco-1.json"].present /\ fs["marco/1.json"].present
    /\ fs["marco-1.json"].kind = "ok" /\ fs["marco/1.json"].kind = "ok"
    /\ fs["marco-1.json"].mtime < fs["marco/1.json"].mtime
    /\ ret.value = FileDoc("marco/1.json")

\* C2: an agent is absent from the latest-report result only when the remote
\* store, the local files and the bundled samples all have no document for it.
C2_AbsentOnlyWhenAllTiersEmpty ==
    ret.op = "api_reports" =>
        \A agent_id \in AgentIds :
            ~Has(ret.value, agent_id) =>
                ~RemoteHas(ret.resp, agent_id) /\ ~LocalHas(agent_id) /\ ~SampleHas(agent_id)

\* C4: when the most recently modified matching file cannot be read or parsed,
\* find_latest_report returns the agent's bundled sample document, or None when
\* there is none; it neither raises nor falls back to an older parseable file.
C4_UnparseableNewestGivesSample ==
    (/\ ret.op = "find_latest_report"
     /\ MatchSet(ret.agent) # {}
     /\ \A path \in Newest(ret.agent) : fs[path].kind = "bad")
    => ret.value = BundledSample(ret.agent)

\* the newest file is unparseable, an older one parses, and nothing is returned
C4_Witness ==
    /\ ret.op = "find_latest_report" /\ ret.agent = "marco"
    /\ fs["marco-1.json"].present /\ fs["marco/1.json"].present
    /\ fs["marco-1.json"].kind = "bad" /\ fs["marco/1.json"].kind = "ok"
    /\ fs["marco-1.json"].mtime > fs["marco/1.json"].mtime
    /\ ret.value = JNull

\* C5: every report of the latest-report result carries a provenance tag, and
\* the tag names the tier that served the report.
C5_EveryReportTagged ==
    ret.op = "api_reports" =>
        \A agent_id \in DOMAIN ret.value.v :
            /\ Has(ret.value.v[agent_id], "source")
            /\ ret.value.v[agent_id].v.source = JStr("supabase") <=> RemoteHas(ret.resp, agent_id)

----------------------------------------------------------------------------
(* Claims about remote failures *)

\* a request that got a non-success status, a transport exception, a timeout,
\* or a body that is not a list (not JSON at all included)
FailedRead(resp) ==
    \/ resp.outcome \in {"exception", "timeout"}
    \/ resp.outcome = "response" /\ resp.status # 200
    \/ resp.outcome = "response" /\ resp.status = 200 /\ ~IsList(resp.body)

\* what the handler answers from local data alone, the remote store left out
LocalAnswer(op) ==
    CASE op = "api_reports" -> LocalReports(fs, 1, sampleCache, EmptyObj).value
      [] op = "api_alerts" -> api_alerts(FALSE, fs, sampleCache, NoRequest).value
      [] op = "api_alerts_detailed" -> api_alerts_detailed(FALSE, fs, sampleCache, hashKey, NoRequest).value
      [] op = "api_approvals" -> load_approvals(approvalsFile, sampleApprovals)
      [] op = "api_metrics" -> api_metrics(FALSE, fs, sampleCache, NoRequest).value

QueryOps == {"api_reports", "api_alerts", "api_alerts_detailed", "api_approvals", "api_metrics"}

\* C3: a remote read that gets a non-success status, a transport exception, a
\* timeout or a body that is not a list never raises: the adapter returns None
\* and the query operation (reports, alerts, detailed alerts, approvals,
\* metrics) answers what its local fallback answers, with nothing of the
\* remote tier in it.
C3_FailedReadFallsBack ==
    (ret.op \in QueryOps /\ sbAvailable /\ FailedRead(ret.resp)) =>
        /\ sb_get(sbAvailable, ret.resp) = JNull
        /\ ~IsRaise(ret.value)
        /\ ret.value = LocalAnswer(ret.op)
        /\ IsObj(ret.value) => ~Has(ret.value, "source")

\* the request for the detailed alerts timed out and the answer is the alerts
\* of the local report, enriched
C3_Witness ==
    /\ ret.op = "api_alerts_detailed" /\ sbAvailable /\ ret.resp.outcome = "timeout"
    /\ fs["annunci-1.json"].present /\ fs["annunci-1.json"].kind = "ok"
    /\ Len(ret.value.v) = 2
    /\ \A k \in 1..2 : Has(ret.value.v[k], "why")

----------------------------------------------------------------------------
(* Claims about the enrichment engine *)

\* enrich_alert has run and returned an enriched alert
Enriched == enriched.run # 0 /\ ~IsRaise(enriched.out)

\* the alert's impact_dollars, 0 when it has none
ImpactIn == IF Has(alertIn, "impact_dollars") THEN alertIn.v.impact_dollars.v ELSE 0

\* the alert's finding text as given, "" when it has none
FindingIn == IF Has(alertIn, "finding") THEN alertIn.v.finding.v ELSE ""

\* C6: the alert_id is a function of (school, agent_id, finding) only: two
\* enrich calls on the same triple yield the same alert_id, within one
\* process and across restarts of the program.
C6_SameTripleSameAlertId ==
    [][(Enriched /\ enriched'.run # 0 /\ ~IsRaise(enriched'.out))
          => enriched'.out.v.alert_id = enriched.out.v.alert_id]_vars

\* C7: impact_monthly is 4 * impact_dollars when impact_dollars > 0 and 0
\* otherwise; it is never negative and always a multiple of impact_dollars.
C7_ImpactMonthly ==
    Enriched =>
        LET m == enriched.out.v.impact_monthly.v
        IN  /\ ImpactIn > 0 => m = ImpactIn + ImpactIn + ImpactIn + ImpactIn
            /\ ImpactIn <= 0 => m = 0
            /\ m >= 0
            /\ \E k \in 0..4 : m = k * ImpactIn

\* a weekly impact of 420 came out as 1680 a month
C7_Witness ==
    Enriched /\ ImpactIn = 420 /\ enriched.out.v.impact_monthly = JNum(1680)

\* C8: impact_type is "confirmed" exactly when the agent is annunci or bussola
\* and impact_dollars > 0; otherwise it is "estimated".
C8_ImpactType ==
    Enriched =>
        /\ enriched.out.v.impact_type \in {JStr("confirmed"), JStr("estimated")}
        /\ enriched.out.v.impact_type = JStr("confirmed")
              <=> (agentIn \in {"annunci", "bussola"} /\ ImpactIn > 0)

\* a positive impact of an agent outside the two domains came out as estimated
C8_Witness ==
    Enriched /\ agentIn = "spia" /\ ImpactIn = 420 /\ enriched.out.v.impact_type = JStr("estimated")

\* the rules of each agent domain as an ordered table: whether the rule
\* matches the lower-cased finding, and the why, evidence and fixes it gives
RuleTable ==
    LET f == StrLower(FindingIn)
        none == EmptyObj
    IN  CASE agentIn = "annunci" ->
               <<[match |-> Contains(f, "zero conversions") \/ Contains(f, "0 conversions"),
                  out |-> ZeroConversions(none, alertIn, reportIn)],
                 [match |-> Contains(f, "cpa") /\ (Contains(f, "high") \/ Contains(f, "2.") \/ Contains(f, "3.")),
                  out |-> HighCpa(none, alertIn)],
                 [match |-> Contains(f, "collapsed") \/ (Contains(f, "dropped") /\ Contains(f, "conversion")),
                  out |-> ConversionsCollapsed(none)],
                 [match |-> Contains(f, "excellent") \/ Contains(f, "good") \/ Contains(f, "performing"),
                  out |-> PerformingWell(none, alertIn)]>>
          [] agentIn = "zona" ->
               <<[match |-> Contains(f, "deindex"), out |-> Deindexed(none, alertIn, reportIn)],
                 [match |-> Contains(f, "zero") /\ Contains(f, "results"), out |-> ZeroResults(none, alertIn)],
                 [match |-> Contains(f, "not appearing") \/ Contains(f, "not indexed"),
                  out |-> NotIndexed(none, alertIn)]>>
          [] agentIn = "spia" ->
               <<[match |-> Contains(f, "dropped") \/ Contains(f, "drop"), out |-> TrafficDropped(none, alertIn)],
                 [match |-> Contains(f, "ranking poorly") \/ Contains(f, "low ctr"),
                  out |-> RankingPoorly(none, alertIn)]>>
          [] agentIn = "bussola" ->
               <<[match |-> Contains(f, "zero conversions") /\ Contains(f, "sessions"),
                  out |-> NoConversions(none, alertIn)],
                 [match |-> Contains(f, "bounce"), out |-> HighBounce(none, alertIn)]>>
          [] OTHER -> <<>>

Matching == {i \in 1..Len(RuleTable) : RuleTable[i].match}

FirstMatching == CHOOSE i \in Matching : \A j \in Matching : i <= j

\* C9: the rules of a domain are tried in one fixed order against the
\* lower-cased finding, and why, evidence and fixes all come from the first
\* rule that matches, never from a later rule or a mix of rules.
C9_FirstMatchingRuleWins ==
    (Enriched /\ Matching # {}) =>
        \A k \in {"why", "evidence", "fixes"} :
            enriched.out.v[k] = RuleTable[FirstMatching].out.v[k]

\* an annunci finding that matches the zero-conversions rule and the CPA rule
\* got the fields of the zero-conversions rule
C9_Witness ==
    /\ Enriched /\ agentIn = "annunci" /\ FindingIn = "0 conversions and CPA too high"
    /\ {1, 2} \subseteq Matching
    /\ enriched.out.v.fixes.v[1].v.action_type = JStr("pause_campaign")
    /\ Len(enriched.out.v.fixes.v) = 2

\* C10: when no rule matches (agents without rules included), why is the
\* alert's action_required, or the generic investigation-needed text when it
\* has none; evidence is the single raw finding text; and there is exactly one
\* fix, of type manual_review, assigned to the alert's original assignee.
C10_Fallback ==
    (Enriched /\ Matching = {}) =>
        /\ enriched.out.v.why = (IF Has(alertIn, "action_required") THEN alertIn.v.action_required
                                 ELSE JStr("Investigation needed to determine root cause."))
        /\ enriched.out.v.evidence = JList(<<JStr(FindingIn)>>)
        /\ Len(enriched.out.v.fixes.v) = 1
        /\ enriched.out.v.fixes.v[1].v.action_type = JStr("manual_review")
        /\ enriched.out.v.fixes.v[1].v.assigned_agent =
               (IF Has(alertIn, "assigned_to") THEN alertIn.v.assigned_to ELSE JStr(agentIn))
        /\ enriched.out.v.fixes.v[1].v.assigned_agent = enriched.out.v.assigned_to

\* the unmatched finding "Unusual pattern observed" with action_required
\* "Review manually", assigned to penna
C10_Witness ==
    /\ Enriched /\ FindingIn = "Unusual pattern observed" /\ agentIn = "marco"
    /\ Get(alertIn, "assigned_to", JNull) = JStr("penna")
    /\ enriched.out.v.why = JStr("Review manually")
    /\ enriched.out.v.evidence = JList(<<JStr("Unusual pattern observed")>>)
    /\ enriched.out.v.fixes.v[1].v.assigned_agent = JStr("penna")

\* C11: enrich never raises: for every alert and report whose optional fields
\* are absent, null or of the wrong shape, it returns an enriched alert.
C11_EnrichNeverRaises == enriched.run # 0 => ~IsRaise(enriched.out)

\* C12: an annunci alert whose finding contains "zero conversions" and whose
\* impact_dollars is 420 enriches to impact_type "confirmed", impact_monthly
\* 1680 and a first fix of type pause_campaign; and every annunci finding that
\* contains "zero conversions" or "0 conversions" gets pause_campaign as its
\* first fix.
C12_ZeroConversionsPausesCampaign ==
    (/\ Enriched /\ agentIn = "annunci"
     /\ \/ Contains(StrLower(FindingIn), "zero conversions")
        \/ Contains(StrLower(FindingIn), "0 conversions"))
    => /\ Len(enriched.out.v.fixes.v) >= 1
       /\ enriched.out.v.fixes.v[1].v.action_type = JStr("pause_campaign")
       /\ ImpactIn = 420 => /\ enriched.out.v.impact_type = JStr("confirmed")
                            /\ enriched.out.v.impact_monthly = JNum(1680)

\* the scenario's alert, "Zero conversions despite $420 spend" with an impact
\* of 420, was enriched by the annunci rules
C12_Witness ==
    /\ Enriched /\ agentIn = "annunci" /\ ImpactIn = 420
    /\ FindingIn = "Zero conversions despite $420 spend"
    /\ Get(alertIn, "school", JNull) = JStr("beibei") /\ Get(alertIn, "level", JNull) = JStr("red")
    /\ enriched.out.v.impact_type = JStr("confirmed")
    /\ enriched.out.v.impact_monthly = JNum(1680)
    /\ enriched.out.v.fixes.v[1].v.action_type = JStr("pause_campaign")

----------------------------------------------------------------------------
(* Claims about the ranking *)

\* a list was ranked
Ranked == ret.op = "rank"

\* the level rank as the claim words it: red, then yellow, then green, then
\* every other level
RankOf(a) ==
    CASE a.v.level.v = "red" -> 1 [] a.v.level.v = "yellow" -> 2
      [] a.v.level.v = "green" -> 3 [] OTHER -> 4

\* where the alert stood in the list that was ranked
PlaceIn(a) == CHOOSE k \in 1..Len(alertIn.v) : alertIn.v[k].v.alert_id = a.v.alert_id

\* C13: the ranked output is a permutation of the input, ordered by level rank
\* (red, yellow, green, then every unrecognized level) and, within one level
\* rank, by impact_monthly non-increasing; so no yellow, green or unrecognized
\* alert precedes a red one and no unrecognized alert precedes a known one.
C13_RankedByLevelThenImpact ==
    Ranked =>
        LET out == ret.value.v
        IN  /\ Len(out) = Len(alertIn.v)
            /\ \A k \in 1..Len(alertIn.v) : \E i \in 1..Len(out) : out[i] = alertIn.v[k]
            /\ \A i, j \in 1..Len(out) :
                  i < j => /\ RankOf(out[i]) <= RankOf(out[j])
                           /\ RankOf(out[i]) = RankOf(out[j])
                                 => out[i].v.impact_monthly.v >= out[j].v.impact_monthly.v
                           /\ out[j].v.level.v = "red" => out[i].v.level.v = "red"
                           /\ out[i].v.level.v \notin {"red", "yellow", "green"}
                                 => out[j].v.level.v \notin {"red", "yellow", "green"}

\* the scenario: levels green, red, yellow with equal impact came out as red,
\* yellow, green
C13_Witness ==
    /\ Ranked /\ Len(alertIn.v) = 3
    /\ [k \in 1..3 |-> alertIn.v[k].v.level.v] = <<"green", "red", "yellow">>
    /\ \A k \in 1..3 : alertIn.v[k].v.impact_monthly.v = 100
    /\ [k \in 1..3 |-> ret.value.v[k].v.level.v] = <<"red", "yellow", "green">>

\* C14: ranking is stable: two alerts of the same level rank and the same
\* impact_monthly appear in the output in the relative order of the input.
C14_RankingIsStable ==
    Ranked =>
        LET out == ret.value.v
        IN  \A i, j \in 1..Len(out) :
                (/\ i < j /\ RankOf(out[i]) = RankOf(out[j])
                 /\ out[i].v.impact_monthly.v = out[j].v.impact_monthly.v)
                => PlaceIn(out[i]) < PlaceIn(out[j])

\* two yellow alerts of impact 100 followed by a red one: the red one moved to
\* the front and the yellow ones kept their order
C14_Witness ==
    /\ Ranked /\ Len(alertIn.v) = 3
    /\ [k \in 1..3 |-> alertIn.v[k].v.level.v] = <<"yellow", "yellow", "red">>
    /\ alertIn.v[1].v.impact_monthly.v = 100 /\ alertIn.v[2].v.impact_monthly.v = 100
    /\ [k \in 1..3 |-> PlaceIn(ret.value.v[k])] = <<3, 1, 2>>

----------------------------------------------------------------------------
(* Claims about the approval ledger *)

\* the last operation was a request to /api/fix
Fixed == ret.op = "api_fix"

\* ... and it was answered with {"success": true, "approval": ...}
Succeeded == Fixed /\ ret.status = 200 /\ ~IsRaise(ret.value) /\ Has(ret.value, "approval")

\* the entries of a log file; a file that is missing or does not parse has none
Entries(file) == IF IsList(file) THEN file.v ELSE <<>>

\* what a reader of the ledger gets from the file
Readable(file) == load_approvals(file, sampleApprovals).v

\* C15: every approval that is recorded has status "approved" whatever status
\* the caller sent, keeps the caller's timestamp when one was supplied, and
\* otherwise carries the instant of the call.
C15_ApprovedAndStamped ==
    Succeeded =>
        LET a == ret.value.v.approval
            data == ret.request.data
        IN  /\ a.v.status = JStr("approved")
            /\ Has(data, "timestamp") => a.v.timestamp = data.v.timestamp
            /\ ~Has(data, "timestamp") => a.v.timestamp = JStr(ret.now)
            /\ Entries(approvalsFile)[Len(Entries(approvalsFile))] = a

\* a request that sent the status "rejected" and no timestamp was recorded as
\* approved at the instant of the call
C15_Witness ==
    /\ Succeeded
    /\ Get(ret.request.data, "status", JNull) = JStr("rejected")
    /\ ~Has(ret.request.data, "timestamp")
    /\ ret.value.v.approval.v.status = JStr("approved")
    /\ ret.value.v.approval.v.timestamp = JStr(ret.now)

\* C16: a request is never rejected because identifying fields are missing:
\* for every subset of alert_id, fix_action, school, campaign, description,
\* estimated_impact and approved_by that the caller omits, all of them
\* included, the approval is recorded with the omitted fields set to the
\* empty string (approved_by to "client").
C16_MissingFieldsNeverReject ==
    (Fixed /\ ~IsDemo(ret.request) /\ IsObj(ret.request.data) /\ ret.write \in {"ok", "none"})
    => /\ Succeeded
       /\ \A k \in DOMAIN ApprovalDefaults :
             ret.value.v.approval.v[k] =
                 (IF Has(ret.request.data, k) THEN ret.request.data.v[k]
                  ELSE IF k = "approved_by" THEN JStr("client") ELSE JStr(""))
       /\ Entries(approvalsFile)[Len(Entries(approvalsFile))] = ret.value.v.approval

\* C17: the append to the local log happens before any write to the remote
\* store, and if the local write fails the caller gets a failure and no
\* remote mirror write is attempted.
C17_LocalFirstOrFail ==
    Fixed =>
        /\ \A i \in 1..Len(ret.effects) :
              ret.effects[i] = "remote_post" => \E j \in 1..(i - 1) : ret.effects[j] = "local_write"
        /\ ret.write \in {"denied", "torn"} =>
              /\ ret.status # 200 /\ IsRaise(ret.value)
              /\ \A i \in 1..Len(ret.effects) : ret.effects[i] # "remote_post"
              /\ parlami_actions = <<>>

\* with the remote store configured, a write that failed part-way was
\* answered with a failure and nothing was sent to the remote store
C17_Witness ==
    /\ Fixed /\ sbAvailable /\ ret.write = "torn"
    /\ ret.status = 500 /\ IsRaise(ret.value)
    /\ ret.effects = <<"local_write">> /\ parlami_actions = <<>>

\* C18: a request whose remote mirror write fails (remote store not
\* configured, non-success status, timeout or exception) is still answered
\* with success, and the approval is then in the local log and can be read
\* back from it.
C18_MirrorFailureStillRecords ==
    (Fixed /\ Saves(ret.request) /\ ret.write = "ok" /\ ret.upsert = JNull)
    => /\ Succeeded
       /\ ret.value.v.success = JBool(TRUE)
       /\ IsList(approvalsFile)
       /\ approvalsFile.v[Len(approvalsFile.v)] = ret.value.v.approval
       /\ \E i \in 1..Len(Readable(approvalsFile)) :
             Readable(approvalsFile)[i] = ret.value.v.approval

\* the POST to the remote store timed out, the request was answered with
\* success and the approval is the last entry of the log
C18_Witness ==
    /\ Succeeded /\ sbAvailable /\ ret.resp.outcome = "timeout" /\ ~ret.resp.stored
    /\ ret.upsert = JNull /\ parlami_actions = <<>>
    /\ ret.effects = <<"local_write", "remote_post">>
    /\ approvalsFile.v[Len(approvalsFile.v)] = ret.value.v.approval

\* C19: the local log is append-only under any sequence of requests: after
\* each one the log holds what it held before, unchanged and in the same
\* order, followed by the new approval if one was recorded; also when the log
\* file cannot be read or parsed at the time of the request.
C19_LogIsAppendOnly ==
    Fixed =>
        LET before == Readable(ret.before)
            after == Readable(approvalsFile)
        IN  /\ Len(after) >= Len(before)
            /\ SubSeq(after, 1, Len(before)) = before
            /\ Succeeded => after = Append(before, ret.value.v.approval)
            /\ ~Succeeded => after = before

\* C20: every entry of the local log was created by a request to /api/fix:
\* starting from a missing log file, after n successful requests the log
\* holds exactly those n approvals and no entry of any other origin (such as
\* the bundled sample approvals).
C20_LogHoldsOnlyRecorded ==
    Succeeded => approvalsFile = JList(recorded)

C24_NotificationsDetached ==
    calls.op = "demo_request" =>
        /\ calls.pc \in {"spawned", "responded"} =>
              /\ leadsFile = calls.saved
              /\ Entries(leadsFile)[Len(Entries(leadsFile))] = calls.lead
        /\ calls.pc = "responded" =>
              /\ ret.status = 200
              /\ ret.value = ThankYou

\* the request answered while both notifications were running; afterwards
\* the webhook raised and the email is still running
C24_Witness ==
    /\ calls.op = "demo_request" /\ calls.pc = "responded"
    /\ \A n \in Notifiers : ret.threads[n] = "running"
    /\ calls.threads["_send_discord_webhook"] = "raised"
    /\ calls.threads["_send_email_notification"] = "running"
    /\ ret.status = 200
    /\ leadsFile = JList(<<LeadBefore, calls.lead>>)

\* C25: the query and enrichment paths share no state that affects results:
\* over unchanged files, whatever the interleaving, each concurrent invocation
\* returns what it returns when run alone, also when the invocations race on
\* the first load of the bundled samples.
C25_SameAsAlone ==
    \A w \in DOMAIN calls :
        (calls[w].op \in {"find_latest_report", "enrich_alert"} /\ calls[w].pc = "done") =>
            calls[w].result = Alone(calls[w], fs, hashKey)

\* two invocations both found the samples unloaded, both loaded them, and
\* both returned the report of the samples
C25_Witness ==
    /\ calls # <<>>
    /\ \A w \in DOMAIN calls :
          /\ calls[w].op \in {"find_latest_report", "enrich_alert"}
          /\ calls[w].pc = "done" /\ calls[w].loaded
          /\ calls[w].result # JNull
          /\ calls[w].result = Alone(calls[w], fs, hashKey)
    /\ \E w \in DOMAIN calls : calls[w].op = "enrich_alert"

\* entry stands for approval a in a list of approvals: a itself, as the local
\* log holds it, or the row api_fix sends to the remote store for a, as
\* api_approvals returns it
StandsFor(entry, a) ==
    \/ entry = a
    \/ entry = Put(ActionRow(a), "result", parse_json_field(Get(ActionRow(a), "result", JNull)))

\* C26: read-your-writes on the ledger: every approval recorded with success
\* is in the result of every later list of approvals, whatever the
\* availability of the remote store at write time and at read time.
C26_ReadYourWrites ==
    ret.op = "api_approvals" =>
        \A i \in 1..Len(recorded) :
            \E k \in 1..Len(ret.value.v) : StandsFor(ret.value.v[k], recorded[i])

\* the request was made in demo mode: demo=true in the query, or in the referrer
InDemoMode(req) ==
    \/ req.args_demo = JStr("true")
    \/ (IsStr(req.referrer) /\ Contains(req.referrer.v, "demo=true"))

\* C27: a fix submission in demo mode, or with no JSON body, is refused with
\* an error and has no effect: the local approval log and the remote table
\* are as they were, and nothing is written or posted.
C27_RefusedWithoutEffect ==
    (Fixed /\ (InDemoMode(ret.request) \/ ret.request.data = JNull)) =>
        /\ ret.status = (IF InDemoMode(ret.request) THEN 403 ELSE 400)
        /\ Has(ret.value, "error")
        /\ approvalsFile = ret.before
        /\ parlami_actions = <<>>
        /\ recorded = <<>>
        /\ ret.effects = <<>>

\* a complete body posted from a page whose address holds demo=true was
\* refused with 403 and the log kept its one entry
C27_Witness ==
    /\ Fixed
    /\ ret.request.args_demo = JNull
    /\ ret.request.referrer = JStr("http://app/?demo=true")
    /\ ret.request.data = FullBody
    /\ ret.status = 403
    /\ approvalsFile = JList(<<ApprovalLocal>>)
    /\ ret.effects = <<>>

\* C29: every enriched alert that enrich_alert returns has at least one fix
\* and at least one evidence entry, for every agent and finding: when a rule
\* matched, when none did, and when action_required is the empty string.
C29_HasFixAndEvidence ==
    Enriched =>
        /\ Len(enriched.out.v.fixes.v) >= 1
        /\ Len(enriched.out.v.evidence.v) >= 1

\* no rule matched an alert whose action_required is "": the fallback gave
\* one manual_review fix with an empty description and the finding as evidence
C29_Witness ==
    /\ Enriched /\ Matching = {}
    /\ Get(alertIn, "action_required", JNull) = JStr("")
    /\ enriched.out.v.why = JStr("")
    /\ Len(enriched.out.v.fixes.v) = 1
    /\ enriched.out.v.fixes.v[1].v.description = JStr("")
    /\ enriched.out.v.evidence = JList(<<JStr(FindingIn)>>)

\* the schools of campaign_breakdown in report order, each with its campaigns
Breakdown == Values(Get(reportIn, "campaign_breakdown", EmptyObj))

\* the campaign qualifies: conversions == 0 and spend > 50
Qualifies(c) ==
    /\ Get(c, "conversions", JNull) = JNum(0)
    /\ Get(c, "spend", JNum(0)).v > 50

\* the places <<school, campaign>> of the qualifying campaigns
Qualifying ==
    {p \in UNION {{<<i, j>> : j \in 1..Len(Breakdown[i].v)} : i \in 1..Len(Breakdown)} :
        Qualifies(Breakdown[p[1]].v[p[2]])}

\* the first of them in report order
FirstQualifying ==
    CHOOSE p \in Qualifying :
        \A q \in Qualifying : p[1] < q[1] \/ (p[1] = q[1] /\ p[2] <= q[2])

\* the annunci zero-conversions rule ran
ZeroConversionsRan ==
    /\ Enriched /\ agentIn = "annunci"
    /\ \/ Contains(StrLower(FindingIn), "zero conversions")
       \/ Contains(StrLower(FindingIn), "0 conversions")

\* C30: in the annunci zero-conversions rule the campaign named in the
\* evidence and in the pause_campaign fix is the first campaign, in report
\* order across all schools, with conversions == 0 and spend > 50; when none
\* qualifies the evidence says "Multiple campaigns affected" and the fix's
\* campaign is the finding text.
C30_FirstQualifyingCampaign ==
    ZeroConversionsRan =>
        IF Qualifying = {}
        THEN /\ enriched.out.v.evidence.v[2] = JStr("Multiple campaigns affected")
             /\ enriched.out.v.fixes.v[1].v.campaign = JStr(FindingIn)
        ELSE LET c == Breakdown[FirstQualifying[1]].v[FirstQualifying[2]]
             IN  /\ enriched.out.v.evidence.v[2] = JStr("Campaign: " \o Get(c, "name", JStr("")).v)
                 /\ enriched.out.v.fixes.v[1].v.campaign = Get(c, "name", JStr(""))

\* the remote store is reached and answers with no rows
EmptyRows == [outcome |-> "response", status |-> 200, body |-> JList(<<>>)]

\* the queries that read reports or alerts
ReportQueries == {"api_reports", "api_alerts", "api_alerts_detailed"}

\* what the query answers over the given local files when the remote store
\* answers with no rows
OnEmpty(op, files, cache) ==
    CASE op = "api_reports" -> api_reports(TRUE, files, cache, EmptyRows).value
      [] op = "api_alerts" -> api_alerts(TRUE, files, cache, EmptyRows).value
      [] op = "api_alerts_detailed" -> api_alerts_detailed(TRUE, files, cache, hashKey, EmptyRows).value

\* on an empty remote result the query answers from the local report files
FallsBackOnEmpty(op) == OnEmpty(op, fs, sampleCache) = LocalAnswer(op)

\* on an empty remote result the query answers the same whatever the local
\* report files and samples hold
EmptyIsFinal(op) ==
    OnEmpty(op, fs, sampleCache) = OnEmpty(op, [path \in FileNames |-> [present |-> FALSE]], EmptyObj)

\* C28: the reports, aggregate-alerts and detailed-alerts queries apply the
\* same rule to an empty remote result: all of them fall back to the local
\* report files, or all of them take the empty result as the answer.
C28_SameRuleOnEmpty ==
    (ret.op \in ReportQueries /\ sbAvailable /\ ret.resp = EmptyRows) =>
        \/ \A op \in ReportQueries : FallsBackOnEmpty(op)
        \/ \A op \in ReportQueries : EmptyIsFinal(op)

\* every concurrent request was answered with success
AllDone == calls # <<>> /\ \A w \in DOMAIN calls : calls[w].pc = "done"

\* the requests whose approval the log file holds
Kept == {w \in DOMAIN calls : \E i \in 1..Len(Entries(approvalsFile)) :
                                  Entries(approvalsFile)[i] = calls[w].approval}

\* no request read the log after another request had written its approval
AllReadFirst ==
    \A w, u \in DOMAIN calls :
        \A i \in 1..Len(calls[w].approvals.v) : calls[w].approvals.v[i] # calls[u].approval

\* C22: the read-append-write cycle of the ledger is not atomic: when the
\* concurrent requests all read the log before any of them writes it, then
\* after all were answered with success the log is what one of them read,
\* followed by the approval of that one alone.
C22_LostUpdate ==
    (AllDone /\ AllReadFirst) =>
        /\ Len(recorded) = MaxWorkers
        /\ Cardinality(Kept) = 1
        /\ \E w \in DOMAIN calls :
              approvalsFile = JList(Append(calls[w].approvals.v, calls[w].approval))

\* two requests were answered with success and the log holds the approval
\* of the second alone, after the entry it held before
C22_Witness ==
    /\ AllDone /\ AllReadFirst /\ Len(recorded) = 2
    /\ Kept = {2}
    /\ approvalsFile = JList(<<ApprovalLocal, calls[2].approval>>)

====
